---- MODULE Spec2Model ----
(***************************************************************************)
(* The adaptive staircases of rsvp_experiment_lettersandcontrast.py:       *)
(* SizeStaircase and ContrastStaircase, as state machines driven by        *)
(* record_response(correct).                                               *)
(*                                                                         *)
(* Numbers are scaled by one hundred (LogMAR 1.0 is 100, contrast 1.25 is  *)
(* 125).  A level value is a Python float, Float(n), or a Python str,      *)
(* Str(characters), as the program reads them from its CSV files and       *)
(* default lists.                                                          *)
(* direction is None / 1 / -1 in the code; None is written 0 here.         *)
(* A float result that need not be a level value (np.mean) is the exact    *)
(* fraction [num, den].                                                    *)
(***************************************************************************)
EXTENDS Integers, Sequences, FiniteSets, TLC

VARIABLES constructed, staircase, calls, setup, gen, trial, collector, session,
          labjack

vars == <<constructed, staircase, calls, setup, gen, trial, collector, session,
         labjack>>

(* a component that takes no part in the specification at hand *)
Idle == [pc |-> "idle"]

(***************************************************************************)
(* Bounds of the model.                                                    *)
(***************************************************************************)
MaxTrials == 11

(***************************************************************************)
(* Program constants.                                                      *)
(***************************************************************************)
N_REVERSALS_SIZE == 2
N_REVERSALS_CONTRAST == 2
MAX_CONSECUTIVE_ERRORS == 2
MIN_TRIALS_PER_STAIRCASE == 10
direction_None == 0
SIZE_LOGMAR_START == 100
CONTRAST_START_PCT == 10000

(***************************************************************************)
(* Inputs of the constructors: the level lists (as passed, before the      *)
(* constructor sorts them) and the starting values.                        *)
(***************************************************************************)
Float(n) == [t |-> "float", v |-> n]
Str(characters) == [t |-> "str", s |-> characters]

Floats(numbers) == [i \in 1..Len(numbers) |-> Float(numbers[i])]

ScenarioLevels == Floats(<<100, 80, 60, 40, 20>>)
ScenarioStart == SIZE_LOGMAR_START

(* the strings '5', '10', '2.5' *)
ShortStrings == << Str(<<"5">>), Str(<<"1", "0">>), Str(<<"2", ".", "5">>) >>

LevelLists ==
    { ScenarioLevels, Floats(<<40>>), Floats(<<20, 100>>), Floats(<<60, 60, 20>>),
      Floats(<<80, 40, 120>>), ShortStrings }
StartValues == { ScenarioStart, 50, 10 }

(***************************************************************************)
(* Python's ordering of two values of one type: floats by value, strings   *)
(* by code point, character by character.                                  *)
(***************************************************************************)
ord(c) ==
    CASE c = "-" -> 45 [] c = "." -> 46
      [] c = "0" -> 48 [] c = "1" -> 49 [] c = "2" -> 50 [] c = "3" -> 51
      [] c = "4" -> 52 [] c = "5" -> 53 [] c = "6" -> 54 [] c = "7" -> 55
      [] c = "8" -> 56 [] c = "9" -> 57

RECURSIVE str_le(_, _)
str_le(a, b) ==
    IF a = <<>> THEN TRUE
    ELSE IF b = <<>> THEN FALSE
    ELSE IF ord(Head(a)) # ord(Head(b)) THEN ord(Head(a)) < ord(Head(b))
    ELSE str_le(Tail(a), Tail(b))

py_le(a, b) ==
    IF a.t = "float" THEN a.v <= b.v ELSE str_le(a.s, b.s)

(***************************************************************************)
(* float(x): a float is itself; a decimal string ('-0.3', '100', '1.25')   *)
(* is parsed: sign, integer digits, up to two fraction digits.             *)
(***************************************************************************)
RECURSIVE digits_value(_)
digits_value(d) ==
    IF d = <<>> THEN 0
    ELSE 10 * digits_value(SubSeq(d, 1, Len(d) - 1)) + (ord(d[Len(d)]) - 48)

float_of_str(s) ==
    LET negative == s # <<>> /\ s[1] = "-"
        body     == IF negative THEN Tail(s) ELSE s
        dots     == { i \in 1..Len(body) : body[i] = "." }
        dot      == IF dots = {} THEN Len(body) + 1 ELSE CHOOSE i \in dots : TRUE
        whole    == digits_value(SubSeq(body, 1, dot - 1))
        fraction == SubSeq(body, dot + 1, Len(body))
        tenths   == IF Len(fraction) >= 1 THEN ord(fraction[1]) - 48 ELSE 0
        hundredths == IF Len(fraction) >= 2 THEN ord(fraction[2]) - 48 ELSE 0
        magnitude == 100 * whole + 10 * tenths + hundredths
    IN  IF negative THEN 0 - magnitude ELSE magnitude

float(x) ==
    IF x.t = "float" THEN x.v ELSE float_of_str(x.s)

(***************************************************************************)
(* sorted(values, reverse=True): a stable sort into descending order.      *)
(***************************************************************************)
InsertDescending(x, s) ==
    LET before == { i \in 1..Len(s) : py_le(s[i], x) }
        p == IF before = {} THEN Len(s) + 1
             ELSE CHOOSE i \in before : \A j \in before : i <= j
    IN  SubSeq(s, 1, p - 1) \o <<x>> \o SubSeq(s, p, Len(s))

RECURSIVE sorted_reverse(_)
sorted_reverse(values) ==
    IF values = <<>> THEN <<>>
    ELSE InsertDescending(Head(values), sorted_reverse(Tail(values)))

(***************************************************************************)
(* The starting index: the first index whose value is <= the starting      *)
(* value, 0 when there is none.  Indices are 0-based as in the code.       *)
(***************************************************************************)
(* the search loop without its break: the last matching index wins *)
starting_index_no_break(values, starting) ==
    LET found == { i \in 0..(Len(values) - 1) : float(values[i + 1]) <= starting }
    IN  IF found = {} THEN 0
        ELSE CHOOSE i \in found : \A j \in found : j <= i

(* the search with < in place of <= *)
starting_index_strict(values, starting) ==
    LET found == { i \in 0..(Len(values) - 1) : float(values[i + 1]) < starting }
    IN  IF found = {} THEN 0
        ELSE CHOOSE i \in found : \A j \in found : i <= j

starting_index(values, starting) ==
    LET found == { i \in 0..(Len(values) - 1) : float(values[i + 1]) <= starting }
    IN  IF found = {} THEN 0
        ELSE CHOOSE i \in found : \A j \in found : i <= j

(***************************************************************************)
(* np.mean of a non-empty list of numbers, as an exact fraction.           *)
(***************************************************************************)
RECURSIVE Sum(_)
Sum(s) == IF s = <<>> THEN 0 ELSE Head(s) + Sum(Tail(s))

np_mean(s) == [num |-> Sum(s), den |-> Len(s)]

float_value(x) == [num |-> x, den |-> 1]

(* s[-n:] of Python *)
LastN(s, n) == IF Len(s) <= n THEN s ELSE SubSeq(s, Len(s) - n + 1, Len(s))

(***************************************************************************)
(* class SizeStaircase                                                     *)
(***************************************************************************)
SizeStaircase_init(logmar_values, starting_logmar) ==
    LET sorted == sorted_reverse(logmar_values)
    IN  [ cls                   |-> "SizeStaircase",
          logmar_values         |-> sorted,
          current_index         |-> starting_index(sorted, starting_logmar),
          last_response_correct |-> "None",
          consecutive_errors    |-> 0,
          reversal_count        |-> 0,
          reversal_points       |-> <<>>,
          direction             |-> direction_None,
          trials                |-> 0,
          responses             |-> <<>> ]

SizeStaircase_get_current_logmar(self) ==
    float(self.logmar_values[self.current_index + 1])

(* off by one at the hard end *)
Size_not_at_smallest_off_by_one(self) ==
    self.current_index <= Len(self.logmar_values) - 1

Size_not_at_smallest(self) ==
    self.current_index < Len(self.logmar_values) - 1

Size_not_at_largest(self) ==
    self.current_index > 0

(* every single error counts as a pair *)
Size_errors_reached_single(self) ==
    self.consecutive_errors >= MAX_CONSECUTIVE_ERRORS - 1

Size_errors_reached(self) ==
    self.consecutive_errors >= MAX_CONSECUTIVE_ERRORS

(* a reversal that is counted but whose point is not kept *)
Size_record_reversal_count_only(self) ==
    [self EXCEPT !.reversal_count = @ + 1]

Size_record_reversal(self) ==
    [self EXCEPT !.reversal_count = @ + 1,
                 !.reversal_points =
                     Append(@, <<self.trials, SizeStaircase_get_current_logmar(self)>>)]

(* a reversing correct response that does not step *)
Size_on_correct_stall(self) ==
    LET reset == [self EXCEPT !.consecutive_errors = 0]
    IN  IF Size_not_at_smallest(reset)
        THEN IF reset.direction = 1
             THEN [Size_record_reversal(reset) EXCEPT !.direction = -1]
             ELSE [reset EXCEPT !.direction = -1, !.current_index = @ + 1]
        ELSE reset

(* a correct response that forgets to reset the error counter *)
Size_on_correct_no_reset(self) ==
    IF Size_not_at_smallest(self)
    THEN LET counted == IF self.direction = 1
                        THEN Size_record_reversal(self) ELSE self
         IN  [counted EXCEPT !.direction = -1, !.current_index = @ + 1]
    ELSE self

(* a correct response that does not count the reversal *)
Size_on_correct_no_reversal(self) ==
    LET reset == [self EXCEPT !.consecutive_errors = 0]
    IN  IF Size_not_at_smallest(reset)
        THEN [reset EXCEPT !.direction = -1, !.current_index = @ + 1]
        ELSE reset

(* a correct response that sets the direction even when clamped *)
Size_on_correct_direction_when_clamped(self) ==
    LET reset == [self EXCEPT !.consecutive_errors = 0]
    IN  IF Size_not_at_smallest(reset)
        THEN LET counted == IF reset.direction = 1
                            THEN Size_record_reversal(reset) ELSE reset
             IN  [counted EXCEPT !.direction = -1, !.current_index = @ + 1]
        ELSE [reset EXCEPT !.direction = -1]

Size_on_correct(self) ==
    LET reset == [self EXCEPT !.consecutive_errors = 0]
    IN  IF Size_not_at_smallest(reset)
        THEN LET counted == IF reset.direction = 1
                            THEN Size_record_reversal(reset) ELSE reset
             IN  [counted EXCEPT !.direction = -1, !.current_index = @ + 1]
        ELSE reset

(* the error counter reset only when a step was made *)
Size_on_incorrect_reset_in_step(self) ==
    LET bumped == [self EXCEPT !.consecutive_errors = @ + 1]
    IN  IF Size_errors_reached(bumped) /\ Size_not_at_largest(bumped)
        THEN LET counted == IF bumped.direction = -1
                            THEN Size_record_reversal(bumped) ELSE bumped
             IN  [counted EXCEPT !.direction = 1, !.current_index = @ - 1,
                                 !.consecutive_errors = 0]
        ELSE bumped

(* an error pair that never resets the error counter *)
Size_on_incorrect_no_reset(self) ==
    LET bumped == [self EXCEPT !.consecutive_errors = @ + 1]
    IN  IF Size_errors_reached(bumped)
        THEN IF Size_not_at_largest(bumped)
             THEN LET counted == IF bumped.direction = -1
                                 THEN Size_record_reversal(bumped) ELSE bumped
                  IN  [counted EXCEPT !.direction = 1, !.current_index = @ - 1]
             ELSE bumped
        ELSE bumped

Size_on_incorrect(self) ==
    LET bumped == [self EXCEPT !.consecutive_errors = @ + 1]
    IN  IF Size_errors_reached(bumped)
        THEN LET stepped ==
                   IF Size_not_at_largest(bumped)
                   THEN LET counted == IF bumped.direction = -1
                                       THEN Size_record_reversal(bumped) ELSE bumped
                        IN  [counted EXCEPT !.direction = 1, !.current_index = @ - 1]
                   ELSE bumped
             IN  [stepped EXCEPT !.consecutive_errors = 0]
        ELSE bumped

(* the reversal flag without the test for None *)
Size_update_info_no_none_test(old, new) ==
    [ old_index      |-> old.current_index,
      new_index      |-> new.current_index,
      old_direction  |-> old.direction,
      new_direction  |-> new.direction,
      reversal       |-> (old.direction # new.direction),
      reversal_count |-> new.reversal_count ]

Size_update_info(old, new) ==
    [ old_index      |-> old.current_index,
      new_index      |-> new.current_index,
      old_direction  |-> old.direction,
      new_direction  |-> new.direction,
      reversal       |-> (old.direction # direction_None /\ old.direction # new.direction),
      reversal_count |-> new.reversal_count ]

SizeStaircase_record_response(self, correct) ==
    LET counted  == [self EXCEPT !.trials = @ + 1, !.responses = Append(@, correct)]
        adjusted == IF correct THEN Size_on_correct(counted)
                    ELSE Size_on_incorrect(counted)
        new      == [adjusted EXCEPT !.last_response_correct =
                                        IF correct THEN "True" ELSE "False"]
    IN  [self |-> new, info |-> Size_update_info(self, new)]

(* either condition suffices *)
SizeStaircase_is_complete_either(self) ==
    \/ self.reversal_count >= N_REVERSALS_SIZE
    \/ self.trials >= MIN_TRIALS_PER_STAIRCASE

SizeStaircase_is_complete(self) ==
    /\ self.reversal_count >= N_REVERSALS_SIZE
    /\ self.trials >= MIN_TRIALS_PER_STAIRCASE

(* the mean of the first N reversal points instead of the last N *)
SizeStaircase_get_threshold_first(self) ==
    IF Len(self.reversal_points) >= N_REVERSALS_SIZE
    THEN LET first_reversals ==
                 [i \in 1..N_REVERSALS_SIZE |-> self.reversal_points[i][2]]
         IN  np_mean(first_reversals)
    ELSE float_value(SizeStaircase_get_current_logmar(self))

SizeStaircase_get_threshold(self) ==
    IF Len(self.reversal_points) >= N_REVERSALS_SIZE
    THEN LET last_reversals ==
                 [i \in 1..N_REVERSALS_SIZE |->
                     LastN(self.reversal_points, N_REVERSALS_SIZE)[i][2]]
         IN  np_mean(last_reversals)
    ELSE float_value(SizeStaircase_get_current_logmar(self))

(***************************************************************************)
(* class ContrastStaircase                                                 *)
(***************************************************************************)
ContrastStaircase_init(contrast_values, starting_contrast) ==
    LET sorted == sorted_reverse(contrast_values)
    IN  [ cls                   |-> "ContrastStaircase",
          contrast_values       |-> sorted,
          current_index         |-> starting_index(sorted, starting_contrast),
          last_response_correct |-> "None",
          consecutive_errors    |-> 0,
          reversal_count        |-> 0,
          reversal_points       |-> <<>>,
          direction             |-> direction_None,
          trials                |-> 0,
          responses             |-> <<>> ]

ContrastStaircase_get_current_contrast(self) ==
    float(self.contrast_values[self.current_index + 1])

Contrast_not_at_lowest(self) ==
    self.current_index < Len(self.contrast_values) - 1

Contrast_not_at_highest(self) ==
    self.current_index > 0

Contrast_errors_reached(self) ==
    self.consecutive_errors >= MAX_CONSECUTIVE_ERRORS

Contrast_record_reversal(self) ==
    [self EXCEPT !.reversal_count = @ + 1,
                 !.reversal_points =
                     Append(@, <<self.trials, ContrastStaircase_get_current_contrast(self)>>)]

Contrast_on_correct(self) ==
    LET reset == [self EXCEPT !.consecutive_errors = 0]
    IN  IF Contrast_not_at_lowest(reset)
        THEN LET counted == IF reset.direction = 1
                            THEN Contrast_record_reversal(reset) ELSE reset
             IN  [counted EXCEPT !.direction = -1, !.current_index = @ + 1]
        ELSE reset

Contrast_on_incorrect(self) ==
    LET bumped == [self EXCEPT !.consecutive_errors = @ + 1]
    IN  IF Contrast_errors_reached(bumped)
        THEN LET stepped ==
                   IF Contrast_not_at_highest(bumped)
                   THEN LET counted == IF bumped.direction = -1
                                       THEN Contrast_record_reversal(bumped) ELSE bumped
                        IN  [counted EXCEPT !.direction = 1, !.current_index = @ - 1]
                   ELSE bumped
             IN  [stepped EXCEPT !.consecutive_errors = 0]
        ELSE bumped

Contrast_update_info(old, new) ==
    [ old_index      |-> old.current_index,
      new_index      |-> new.current_index,
      old_direction  |-> old.direction,
      new_direction  |-> new.direction,
      reversal       |-> (old.direction # direction_None /\ old.direction # new.direction),
      reversal_count |-> new.reversal_count ]

ContrastStaircase_record_response(self, correct) ==
    LET counted  == [self EXCEPT !.trials = @ + 1, !.responses = Append(@, correct)]
        adjusted == IF correct THEN Contrast_on_correct(counted)
                    ELSE Contrast_on_incorrect(counted)
        new      == [adjusted EXCEPT !.last_response_correct =
                                        IF correct THEN "True" ELSE "False"]
    IN  [self |-> new, info |-> Contrast_update_info(self, new)]

(* either condition suffices *)
ContrastStaircase_is_complete_either(self) ==
    \/ self.reversal_count >= N_REVERSALS_CONTRAST
    \/ self.trials >= MIN_TRIALS_PER_STAIRCASE

ContrastStaircase_is_complete(self) ==
    /\ self.reversal_count >= N_REVERSALS_CONTRAST
    /\ self.trials >= MIN_TRIALS_PER_STAIRCASE

ContrastStaircase_get_threshold(self) ==
    IF Len(self.reversal_points) >= N_REVERSALS_CONTRAST
    THEN LET last_reversals ==
                 [i \in 1..N_REVERSALS_CONTRAST |->
                     LastN(self.reversal_points, N_REVERSALS_CONTRAST)[i][2]]
         IN  np_mean(last_reversals)
    ELSE float_value(ContrastStaircase_get_current_contrast(self))

(***************************************************************************)
(* The state machine: one staircase object, constructed over some level    *)
(* list and starting value (constructed holds the arguments), and the      *)
(* calls made on it so far.  calls[k] is the k-th record_response call:    *)
(* the object before it, its argument and the dict it returned.            *)
(***************************************************************************)
Init ==
    /\ session = Idle
    /\ labjack = Idle
    /\ \E values \in LevelLists, starting \in StartValues :
           /\ constructed = [values |-> values, starting |-> starting]
           /\ \/ staircase = SizeStaircase_init(values, starting)
              \/ staircase = ContrastStaircase_init(values, starting)
    /\ calls = <<>>
    /\ setup = Idle
    /\ gen = Idle
    /\ trial = Idle
    /\ collector = Idle

SizeTrial(correct) ==
    /\ staircase.cls = "SizeStaircase"
    /\ staircase.trials < MaxTrials
    /\ LET r == SizeStaircase_record_response(staircase, correct)
       IN  /\ staircase' = r.self
           /\ calls' = Append(calls, [pre |-> staircase, correct |-> correct,
                                      info |-> r.info])
    /\ UNCHANGED <<constructed, setup, gen, trial, collector,
                 session, labjack>>

ContrastTrial(correct) ==
    /\ staircase.cls = "ContrastStaircase"
    /\ staircase.trials < MaxTrials
    /\ LET r == ContrastStaircase_record_response(staircase, correct)
       IN  /\ staircase' = r.self
           /\ calls' = Append(calls, [pre |-> staircase, correct |-> correct,
                                      info |-> r.info])
    /\ UNCHANGED <<constructed, setup, gen, trial, collector,
                 session, labjack>>

Next ==
    \/ \E correct \in BOOLEAN : SizeTrial(correct)
    \/ \E correct \in BOOLEAN : ContrastTrial(correct)

Spec == Init /\ [][Next]_vars

(***************************************************************************)
(* Vocabulary of the properties.                                           *)
(***************************************************************************)
Levels(self) ==
    IF self.cls = "SizeStaircase" THEN self.logmar_values ELSE self.contrast_values

NCalls == Len(calls)

(* the object after its j-th call, j in 0..NCalls *)
StateAfter(j) == IF j = NCalls THEN staircase ELSE calls[j + 1].pre

AllCorrect(a, b) == \A k \in (a + 1)..b : calls[k].correct

(***************************************************************************)
(* C1: after construction and after any sequence of record_response calls, *)
(* current_index is an integer in [0, len(levels)-1].                      *)
(***************************************************************************)
C1_IndexInRange ==
    /\ staircase.current_index \in Int
    /\ staircase.current_index >= 0
    /\ staircase.current_index <= Len(Levels(staircase)) - 1

(* a correct response arrived at the last index and an error pair at index 0 *)
C1_Witness ==
    /\ NCalls >= 3
    /\ Len(Levels(staircase)) >= 2
    /\ \E k \in 1..NCalls :
           /\ calls[k].correct
           /\ calls[k].pre.current_index = Len(Levels(staircase)) - 1
    /\ ~calls[NCalls].correct
    /\ calls[NCalls].pre.consecutive_errors = 1
    /\ calls[NCalls].pre.current_index = 0

(***************************************************************************)
(* C2: an incorrect response that leaves the error count below the         *)
(* threshold changes neither current_index nor direction nor               *)
(* reversal_count; current_index decreases only in a call that is the      *)
(* second of two consecutive incorrect responses.                          *)
(***************************************************************************)
C2_SingleErrorNoChange ==
    NCalls >= 1 =>
        LET c == calls[NCalls] IN
        /\ (~c.correct /\ c.pre.consecutive_errors + 1 < MAX_CONSECUTIVE_ERRORS) =>
               /\ staircase.current_index = c.pre.current_index
               /\ staircase.direction = c.pre.direction
               /\ staircase.reversal_count = c.pre.reversal_count
        /\ (staircase.current_index < c.pre.current_index) =>
               /\ ~c.correct
               /\ NCalls >= 2
               /\ ~calls[NCalls - 1].correct
               /\ c.pre.consecutive_errors = 1

(* a single error arrived while the staircase was moving, away from the boundaries *)
C2_Witness ==
    /\ NCalls >= 2
    /\ ~calls[NCalls].correct
    /\ calls[NCalls - 1].correct
    /\ calls[NCalls].pre.direction = -1
    /\ calls[NCalls].pre.current_index > 0
    /\ staircase.consecutive_errors = 1

(***************************************************************************)
(* C3: N consecutive correct responses from index i with                   *)
(* i + N <= len(levels)-1 leave current_index = i + N.                     *)
(***************************************************************************)
C3_CorrectRunAdvances ==
    \A a \in 0..NCalls :
        (/\ a < NCalls
         /\ AllCorrect(a, NCalls)
         /\ StateAfter(a).current_index + (NCalls - a) <= Len(Levels(staircase)) - 1)
        => staircase.current_index = StateAfter(a).current_index + (NCalls - a)

(* three correct responses in a row right after an error pair moved the level easier *)
C3_Witness ==
    /\ NCalls >= 5
    /\ AllCorrect(NCalls - 3, NCalls)
    /\ ~calls[NCalls - 3].correct
    /\ StateAfter(NCalls - 3).direction = 1
    /\ staircase.current_index = StateAfter(NCalls - 3).current_index + 3

record_response(self, correct) ==
    IF self.cls = "SizeStaircase"
    THEN SizeStaircase_record_response(self, correct)
    ELSE ContrastStaircase_record_response(self, correct)

C5_ErrorThenCorrect ==
    (/\ NCalls >= 2
     /\ calls[NCalls].correct
     /\ ~calls[NCalls - 1].correct
     /\ StateAfter(NCalls - 2).consecutive_errors = 0)
    => LET alone == record_response(StateAfter(NCalls - 2), TRUE).self IN
       /\ staircase.current_index = alone.current_index
       /\ staircase.direction = alone.direction
       /\ staircase.reversal_count = alone.reversal_count
       /\ staircase.consecutive_errors = 0

(* the pair arrived while the level was moving easier, so the correct response reverses *)
C5_Witness ==
    /\ NCalls >= 4
    /\ calls[NCalls].correct
    /\ ~calls[NCalls - 1].correct
    /\ StateAfter(NCalls - 2).consecutive_errors = 0
    /\ StateAfter(NCalls - 2).direction = 1
    /\ staircase.reversal_count = StateAfter(NCalls - 2).reversal_count + 1

(***************************************************************************)
(* C6: in every call reversal_count increases by exactly 1 if and only if  *)
(* direction changes from one set value to the opposite set value, and is  *)
(* unchanged otherwise; the first assignment of direction from None is no  *)
(* reversal; a reversal point is appended exactly when the count           *)
(* increases; the returned 'reversal' flag is true exactly in those calls. *)
(***************************************************************************)
Flipped(old, new) ==
    \/ (old.direction = 1 /\ new.direction = -1)
    \/ (old.direction = -1 /\ new.direction = 1)

C6_ReversalIffFlip ==
    NCalls >= 1 =>
        LET c == calls[NCalls]
            old == c.pre
        IN  /\ staircase.reversal_count =
                   IF Flipped(old, staircase) THEN old.reversal_count + 1
                   ELSE old.reversal_count
            /\ staircase.reversal_points =
                   IF Flipped(old, staircase)
                   THEN Append(old.reversal_points,
                               <<old.trials + 1, float(Levels(old)[old.current_index + 1])>>)
                   ELSE old.reversal_points
            /\ c.info.reversal = Flipped(old, staircase)
            /\ c.info.reversal_count = staircase.reversal_count

(* the last call flipped the direction and was flagged; an earlier call set *)
(* the direction for the first time and was not                             *)
C6_Witness ==
    /\ NCalls >= 3
    /\ Flipped(calls[NCalls].pre, staircase)
    /\ calls[NCalls].info.reversal
    /\ staircase.reversal_count = calls[NCalls].pre.reversal_count + 1
    /\ \E k \in 1..(NCalls - 1) :
           /\ calls[k].pre.direction = direction_None
           /\ calls[k].info.new_direction # direction_None
           /\ ~calls[k].info.reversal
           /\ calls[k].info.reversal_count = 0

(***************************************************************************)
(* C7: is_complete() is true if and only if reversal_count >= 2 and        *)
(* trials >= 10: false whenever trials < 10 even with enough reversals,    *)
(* false whenever reversal_count < 2 however many trials have run.         *)
(***************************************************************************)
is_complete(self) ==
    IF self.cls = "SizeStaircase"
    THEN SizeStaircase_is_complete(self)
    ELSE ContrastStaircase_is_complete(self)

C7_CompleteIffBoth ==
    /\ is_complete(staircase) <=>
           (staircase.reversal_count >= 2 /\ staircase.trials >= 10)
    /\ staircase.trials < 10 => ~is_complete(staircase)
    /\ staircase.reversal_count < 2 => ~is_complete(staircase)

(* complete now, with both conditions met; earlier, with enough reversals *)
(* but too few trials, it was not                                          *)
C7_Witness ==
    /\ staircase.trials >= 10
    /\ staircase.reversal_count >= 2
    /\ is_complete(staircase)
    /\ \E j \in 0..(NCalls - 1) :
           /\ StateAfter(j).reversal_count >= 2
           /\ StateAfter(j).trials < 10
           /\ ~is_complete(StateAfter(j))

(***************************************************************************)
(* C8: get_threshold() is the arithmetic mean of the level values of the   *)
(* last 2 reversal points when at least 2 exist, and the current level     *)
(* value otherwise.                                                        *)
(***************************************************************************)
get_threshold(self) ==
    IF self.cls = "SizeStaircase"
    THEN SizeStaircase_get_threshold(self)
    ELSE ContrastStaircase_get_threshold(self)

C8_ThresholdIsMean ==
    LET t == get_threshold(staircase)
        points == staircase.reversal_points
        n == Len(points)
    IN  /\ t.den > 0
        /\ IF n >= 2
           THEN 2 * t.num = (points[n - 1][2] + points[n][2]) * t.den
           ELSE t.num = float(Levels(staircase)[staircase.current_index + 1]) * t.den

(* three reversal points at three levels, so the mean of the last two is  *)
(* neither the mean of the first two nor the current level; earlier, with *)
(* one reversal point, the threshold was the current level                *)
C8_Witness ==
    LET points == staircase.reversal_points
        n == Len(points)
    IN  /\ n >= 3
        /\ points[1][2] # points[n][2]
        /\ points[n - 1][2] # points[n][2]
        /\ 2 * float(Levels(staircase)[staircase.current_index + 1]) #
               points[n - 1][2] + points[n][2]
        /\ \E j \in 0..(NCalls - 1) :
               /\ Len(StateAfter(j).reversal_points) = 1
               /\ StateAfter(j).reversal_points[1][2] #
                      float(Levels(StateAfter(j))[StateAfter(j).current_index + 1])
               /\ get_threshold(StateAfter(j)) =
                      float_value(float(Levels(StateAfter(j))[StateAfter(j).current_index + 1]))

(***************************************************************************)
(* The scenario: levels [1.0, 0.8, 0.6, 0.4, 0.2], start 1.0, responses    *)
(* correct, correct, incorrect, incorrect, correct.                        *)
(***************************************************************************)
ScenarioResponses == <<TRUE, TRUE, FALSE, FALSE, TRUE>>

InScenario ==
    /\ constructed.values = ScenarioLevels
    /\ constructed.starting = ScenarioStart
    /\ staircase.trials <= Len(ScenarioResponses)
    /\ staircase.responses = SubSeq(ScenarioResponses, 1, staircase.trials)

ScenarioDone == InScenario /\ staircase.trials = Len(ScenarioResponses)

(***************************************************************************)
(* C9: in the scenario current_index takes the values 0 (initial), 1, 2,   *)
(* 2 (after the first incorrect), 1 (after the second incorrect), 2.       *)
(***************************************************************************)
ScenarioPath == <<0, 1, 2, 2, 1, 2>>

C9_ScenarioIndexPath ==
    InScenario => staircase.current_index = ScenarioPath[staircase.trials + 1]

C9_Witness ==
    /\ ScenarioDone
    /\ staircase.cls = "SizeStaircase"
    /\ \A j \in 0..5 : StateAfter(j).current_index = ScenarioPath[j + 1]

(***************************************************************************)
(* C10 as stated: after the scenario exactly one reversal has been         *)
(* recorded (reversal_count = 1, one reversal point).                      *)
(***************************************************************************)
C10_Original ==
    ScenarioDone =>
        /\ staircase.reversal_count = 1
        /\ Len(staircase.reversal_points) = 1

(***************************************************************************)
(* C10 amended: after the first four responses of the scenario exactly one *)
(* reversal has been recorded, at the direction flip caused by the paired  *)
(* incorrect responses (trial 4, level 0.6); the final correct response    *)
(* flips the direction back and records a second one (trial 5, level 0.8), *)
(* so after the scenario reversal_count = 2 with two reversal points.      *)
(***************************************************************************)
C10_ScenarioReversals ==
    InScenario =>
        /\ staircase.trials <= 3 =>
               (staircase.reversal_count = 0 /\ staircase.reversal_points = <<>>)
        /\ staircase.trials = 4 =>
               /\ staircase.reversal_count = 1
               /\ staircase.reversal_points = << <<4, 60>> >>
               /\ staircase.direction = 1
        /\ staircase.trials = 5 =>
               /\ staircase.reversal_count = 2
               /\ staircase.reversal_points = << <<4, 60>>, <<5, 80>> >>
               /\ staircase.direction = -1

C10_Witness ==
    /\ ScenarioDone
    /\ staircase.cls = "SizeStaircase"
    /\ staircase.reversal_count = 2
    /\ calls[4].info.reversal
    /\ calls[5].info.reversal

(***************************************************************************)
(* A call that attempts a level change past a boundary: a correct response *)
(* at the last index, or the incorrect response completing an error pair   *)
(* at index 0.                                                             *)
(***************************************************************************)
ClampedHarder(c) ==
    c.correct /\ c.pre.current_index = Len(Levels(c.pre)) - 1

ClampedEasier(c) ==
    ~c.correct /\ c.pre.consecutive_errors = 1 /\ c.pre.current_index = 0

(***************************************************************************)
(* C11 as stated: when a level change is attempted past a boundary,        *)
(* current_index is unchanged but direction is set to the direction of the *)
(* attempted move, and a reversal is counted if the previous direction was *)
(* the opposite set value.                                                 *)
(***************************************************************************)
C11_Original ==
    NCalls >= 1 =>
        LET c == calls[NCalls] IN
        /\ ClampedHarder(c) =>
               /\ staircase.current_index = c.pre.current_index
               /\ staircase.direction = -1
               /\ staircase.reversal_count =
                      c.pre.reversal_count + (IF c.pre.direction = 1 THEN 1 ELSE 0)
        /\ ClampedEasier(c) =>
               /\ staircase.current_index = c.pre.current_index
               /\ staircase.direction = 1
               /\ staircase.reversal_count =
                      c.pre.reversal_count + (IF c.pre.direction = -1 THEN 1 ELSE 0)

(***************************************************************************)
(* C11 amended: when a level change is attempted past a boundary,          *)
(* current_index is unchanged and no direction bookkeeping happens:        *)
(* direction, reversal_count and reversal_points are unchanged and the     *)
(* returned reversal flag is false; consecutive_errors is reset to 0.      *)
(***************************************************************************)
C11_ClampedCallKeepsDirection ==
    NCalls >= 1 =>
        LET c == calls[NCalls] IN
        (ClampedHarder(c) \/ ClampedEasier(c)) =>
            /\ staircase.current_index = c.pre.current_index
            /\ staircase.direction = c.pre.direction
            /\ staircase.reversal_count = c.pre.reversal_count
            /\ staircase.reversal_points = c.pre.reversal_points
            /\ ~c.info.reversal
            /\ staircase.consecutive_errors = 0

(* an error pair clamped at index 0 while direction is still unset, and *)
(* before it a correct response clamped at the last index               *)
C11_Witness ==
    /\ NCalls >= 3
    /\ ClampedEasier(calls[NCalls])
    /\ staircase.direction = calls[NCalls].pre.direction
    /\ \E k \in 1..(NCalls - 1) :
           /\ ClampedHarder(calls[k])
           /\ calls[k].pre.direction # direction_None
           /\ calls[k].info.new_direction = calls[k].pre.direction

(***************************************************************************)
(* C12: consecutive_errors is reset to 0 by every correct response and by  *)
(* every incorrect response that brings it to the threshold, whether or    *)
(* not an index step occurred; between calls it is always 0 or 1.          *)
(***************************************************************************)
C12_ErrorCounterBelowThreshold ==
    /\ staircase.consecutive_errors \in {0, 1}
    /\ staircase.consecutive_errors < MAX_CONSECUTIVE_ERRORS
    /\ NCalls >= 1 =>
           LET c == calls[NCalls] IN
           /\ c.correct => staircase.consecutive_errors = 0
           /\ (~c.correct /\ c.pre.consecutive_errors + 1 >= 2) =>
                  staircase.consecutive_errors = 0
           /\ (~c.correct /\ c.pre.consecutive_errors = 0) =>
                  staircase.consecutive_errors = 1

(* an error pair at index 0 (no step) reset the counter, after an earlier *)
(* pair that did step                                                     *)
C12_Witness ==
    /\ NCalls >= 4
    /\ ClampedEasier(calls[NCalls])
    /\ staircase.consecutive_errors = 0
    /\ \E k \in 1..(NCalls - 1) :
           /\ ~calls[k].correct
           /\ calls[k].pre.consecutive_errors = 1
           /\ calls[k].info.new_index = calls[k].info.old_index - 1

(***************************************************************************)
(* Setting a staircase up, as run_size_staircase and run_contrast_staircase *)
(* do: the level list the program loaded (the built-in defaults, or the    *)
(* rows of a CSV file) goes to the constructor, and the first pass of the  *)
(* trial loop reads the current level.                                     *)
(***************************************************************************)
DefaultLogmarValues ==
    << Str(<<"1", ".", "0">>),
       Str(<<"0", ".", "9">>),
       Str(<<"0", ".", "8">>),
       Str(<<"0", ".", "7">>),
       Str(<<"0", ".", "6">>),
       Str(<<"0", ".", "5">>),
       Str(<<"0", ".", "4">>),
       Str(<<"0", ".", "3">>),
       Str(<<"0", ".", "2">>),
       Str(<<"0", ".", "1">>),
       Str(<<"0", ".", "0">>),
       Str(<<"-", "0", ".", "1">>),
       Str(<<"-", "0", ".", "2">>),
       Str(<<"-", "0", ".", "3">>) >>

DefaultContrastValues ==
    << Str(<<"1", "0", "0">>),
       Str(<<"9", "0">>),
       Str(<<"8", "0">>),
       Str(<<"7", "0">>),
       Str(<<"6", "0">>),
       Str(<<"5", "0">>),
       Str(<<"4", "0">>),
       Str(<<"3", "0">>),
       Str(<<"2", "0">>),
       Str(<<"1", "0">>),
       Str(<<"5">>),
       Str(<<"2", ".", "5">>),
       Str(<<"1", ".", "2", "5">>) >>

(* rows of a CSV file: '0.5', '0.25', '0.0' and '-0.2', '0.3', '0.3', '-0.05' *)
CsvDescending == << Str(<<"0", ".", "5">>), Str(<<"0", ".", "2", "5">>), Str(<<"0", ".", "0">>) >>
CsvMixed ==
    << Str(<<"-", "0", ".", "2">>), Str(<<"0", ".", "3">>), Str(<<"0", ".", "3">>),
       Str(<<"-", "0", ".", "0", "5">>) >>

SetupLevelLists ==
    LevelLists \cup { DefaultLogmarValues, DefaultContrastValues, CsvDescending,
                      CsvMixed, <<>> }

SetupStartValues == { SIZE_LOGMAR_START, CONTRAST_START_PCT, 50, 30, 0 - 20, 0 - 100 }

NoStaircase == [cls |-> "None"]

SetupInit ==
    /\ session = Idle
    /\ labjack = Idle
    /\ \E values \in SetupLevelLists, starting \in SetupStartValues :
           constructed = [values |-> values, starting |-> starting]
    /\ staircase = NoStaircase
    /\ calls = <<>>
    /\ setup \in { [pc |-> "start", cls |-> c, raised |-> "None", level |-> <<>>] :
                      c \in {"SizeStaircase", "ContrastStaircase"} }
    /\ gen = Idle
    /\ trial = Idle
    /\ collector = Idle

(* staircase = SizeStaircase(logmar_values, starting_logmar=...) *)
ConstructSize ==
    /\ setup.pc = "start"
    /\ setup.cls = "SizeStaircase"
    /\ staircase' = SizeStaircase_init(constructed.values, constructed.starting)
    /\ setup' = [setup EXCEPT !.pc = "constructed"]
    /\ UNCHANGED <<constructed, calls, gen, trial, collector,
                 session, labjack>>

(* staircase = ContrastStaircase(contrast_values, starting_contrast=...) *)
ConstructContrast ==
    /\ setup.pc = "start"
    /\ setup.cls = "ContrastStaircase"
    /\ staircase' = ContrastStaircase_init(constructed.values, constructed.starting)
    /\ setup' = [setup EXCEPT !.pc = "constructed"]
    /\ UNCHANGED <<constructed, calls, gen, trial, collector,
                 session, labjack>>

(* list[index]: an index outside the list raises IndexError *)
IndexInList(self) ==
    self.current_index >= 0 /\ self.current_index < Len(Levels(self))

(* the first get_current_logmar() / get_current_contrast() of the trial loop *)
ReadCurrentLevel ==
    /\ setup.pc = "constructed"
    /\ IndexInList(staircase)
    /\ setup' = [setup EXCEPT !.pc = "trial",
                              !.level = <<float(Levels(staircase)[staircase.current_index + 1])>>]
    /\ UNCHANGED <<constructed, staircase, calls, gen, trial, collector,
                 session, labjack>>

ReadCurrentLevelFails ==
    /\ setup.pc = "constructed"
    /\ ~IndexInList(staircase)
    /\ setup' = [setup EXCEPT !.pc = "crashed", !.raised = "IndexError"]
    /\ UNCHANGED <<constructed, staircase, calls, gen, trial, collector,
                 session, labjack>>

SetupNext ==
    \/ ConstructSize
    \/ ConstructContrast
    \/ ReadCurrentLevel
    \/ ReadCurrentLevelFails

SpecSetup == SetupInit /\ [][SetupNext]_vars

AllStrings(values) == \A i \in 1..Len(values) : values[i].t = "str"

Constructed == setup.pc \in {"constructed", "trial", "crashed"}

(***************************************************************************)
(* C13: after constructing a staircase from level values as the program    *)
(* supplies them (decimal strings), the stored level list is in            *)
(* numerically descending order: float(levels[i]) >= float(levels[i+1]).   *)
(***************************************************************************)
C13_StoredLevelsDescending ==
    (Constructed /\ AllStrings(constructed.values)) =>
        \A i \in 1..(Len(Levels(staircase)) - 1) :
            float(Levels(staircase)[i]) >= float(Levels(staircase)[i + 1])

(***************************************************************************)
(* C14: after constructing a staircase over a non-empty level list with    *)
(* starting value s, current_index is the smallest index i of the stored   *)
(* list with float(levels[i]) <= s, and is 0 when no stored level is <= s.  *)
(***************************************************************************)
C14_StartingIndex ==
    (Constructed /\ constructed.values # <<>>) =>
        LET levels == Levels(staircase)
            s == constructed.starting
            i == staircase.current_index
        IN  /\ i \in 0..(Len(levels) - 1)
            /\ \A j \in 0..(i - 1) : float(levels[j + 1]) > s
            /\ \/ float(levels[i + 1]) <= s
               \/ (i = 0 /\ \A j \in 0..(Len(levels) - 1) : float(levels[j + 1]) > s)

(* a string list whose stored order is not numeric, started in the middle: *)
(* a later level is larger than the starting value and was not searched    *)
C14_Witness ==
    /\ setup.pc = "trial"
    /\ AllStrings(constructed.values)
    /\ staircase.current_index > 0
    /\ float(Levels(staircase)[staircase.current_index + 1]) <= constructed.starting
    /\ setup.level = <<float(Levels(staircase)[staircase.current_index + 1])>>
    /\ \E j \in (staircase.current_index + 1)..(Len(Levels(staircase)) - 1) :
           float(Levels(staircase)[j + 1]) > constructed.starting

(***************************************************************************)
(* C15: constructing a staircase from an empty level list is a fatal       *)
(* configuration error raised in the constructor, not a silently accepted  *)
(* state with a defaulted index that fails only later when the level is    *)
(* read.                                                                   *)
(***************************************************************************)
C15_EmptyListRejected ==
    (constructed.values = <<>> /\ setup.pc # "start") =>
        /\ setup.pc # "constructed"
        /\ staircase = NoStaircase

(***************************************************************************)
(* Stream generation at the head of run_rsvp_trial, in three variants:     *)
(* "adaptive" (rsvp_experiment_lettersandcontrast.py; the same code is in  *)
(* rsvp_experiment_letters.py and rsvp_experiment_contrastgratings.py),    *)
(* "landoltC" and "labjack".  One step per random draw and per append.     *)
(* The distractor list is configuration (DISTRACTORS, or the images found  *)
(* on disk); a landoltC distractor index is written as its digit.          *)
(***************************************************************************)
TARGET_LETTERS == <<"C", "D", "H", "K", "N", "F", "R", "S", "V", "Z">>
N_STREAM_ITEMS == 16
TARGET_POS_MIN == 3
TARGET_POS_MAX == 8
LABJACK_TARGET_POS_MIN == 5
LABJACK_TARGET_POS_MAX == 8
FIXATION_SYMBOLS == <<"-", "=">>
TARGET_PRESENT_PERCENT == 100
position_None == 0 - 1

DistractorLists == { <<"1">>, <<"1", "2">> }
DistractorImageCounts == { 1, 2 }
TargetPresentPercents == { TARGET_PRESENT_PERCENT, 50 }

(* random.random(), in hundredths *)
random_random == { 0, 50, 99 }

(* random.choice(seq) *)
random_choice(seq) == { seq[k] : k \in 1..Len(seq) }

(* random.randint(a, b): both ends included *)
random_randint(a, b) == a..b

(* numpy RandomState.randint(low, high): high excluded *)
rng_randint(low, high) == low..(high - 1)

(* landoltC: the index of a distractor image, as a stream item *)
ImageIndex(k) == CASE k = 0 -> "0" [] k = 1 -> "1" [] k = 2 -> "2"

(* rng.randint with its upper bound taken as included *)
LabjackTargetPositions_inclusive ==
    LABJACK_TARGET_POS_MIN..(LABJACK_TARGET_POS_MAX + 1)

LabjackTargetPositions ==
    rng_randint(LABJACK_TARGET_POS_MIN, LABJACK_TARGET_POS_MAX + 1)

Last(seq) == seq[Len(seq)]

GenStart(variant, distractors, percent) ==
    [ pc |-> "start", variant |-> variant, distractors |-> distractors,
      percent |-> percent, target_present |-> TRUE, target_letter |-> "None",
      target_position |-> position_None, end_symbol |-> "None",
      stream |-> <<>>, i |-> 0, distractor |-> "None", resampled |-> FALSE ]

StreamInit ==
    /\ session = Idle
    /\ labjack = Idle
    /\ gen \in
          { GenStart("adaptive", d, TARGET_PRESENT_PERCENT) : d \in DistractorLists }
          \cup { GenStart("labjack", d, TARGET_PRESENT_PERCENT) : d \in DistractorLists }
          \cup { GenStart("landoltC", [k \in 1..n |-> ImageIndex(k - 1)], pct) :
                     n \in DistractorImageCounts, pct \in TargetPresentPercents }
    /\ constructed = Idle
    /\ staircase = NoStaircase
    /\ calls = <<>>
    /\ setup = Idle
    /\ trial = Idle
    /\ collector = Idle

(* adaptive: random.choice(TARGET_LETTERS); random.randint(MIN, MAX) *)
ChooseTargetAdaptive ==
    /\ gen.pc = "start"
    /\ gen.variant = "adaptive"
    /\ \E letter \in random_choice(TARGET_LETTERS),
          position \in random_randint(TARGET_POS_MIN, TARGET_POS_MAX) :
           gen' = [gen EXCEPT !.pc = "loop", !.target_letter = letter,
                              !.target_position = position]
    /\ UNCHANGED <<constructed, staircase, calls, setup, trial, collector,
                 session, labjack>>

(* landoltC: target_present drawn against TARGET_PRESENT_PERCENT; a position *)
(* only when the target is present                                          *)
ChooseTargetLandolt ==
    /\ gen.pc = "start"
    /\ gen.variant = "landoltC"
    /\ \E r \in random_random,
          position \in random_randint(TARGET_POS_MIN, TARGET_POS_MAX) :
           LET present == r < gen.percent IN
           gen' = [gen EXCEPT !.pc = "loop", !.target_present = present,
                              !.target_letter = "target",
                              !.target_position =
                                  IF present THEN position ELSE position_None]
    /\ UNCHANGED <<constructed, staircase, calls, setup, trial, collector,
                 session, labjack>>

(* labjack: three draws from the seeded generator *)
ChooseTargetLabjack ==
    /\ gen.pc = "start"
    /\ gen.variant = "labjack"
    /\ \E k \in rng_randint(0, Len(TARGET_LETTERS)),
          position \in LabjackTargetPositions,
          e \in rng_randint(0, Len(FIXATION_SYMBOLS)) :
           gen' = [gen EXCEPT !.pc = "loop", !.target_letter = TARGET_LETTERS[k + 1],
                              !.target_position = position,
                              !.end_symbol = FIXATION_SYMBOLS[e + 1]]
    /\ UNCHANGED <<constructed, staircase, calls, setup, trial, collector,
                 session, labjack>>

(* the slot of the target: i == target_position (and target_present) *)
TargetSlot(g) == g.target_present /\ g.i = g.target_position

(* the draws one distractor choice can give *)
DistractorDraws(g) ==
    CASE g.variant = "adaptive" -> random_choice(g.distractors)
      [] g.variant = "landoltC" ->
             { ImageIndex(k) : k \in random_randint(0, Len(g.distractors) - 1) }
      [] g.variant = "labjack" ->
             { g.distractors[k + 1] : k \in rng_randint(0, Len(g.distractors)) }

(* a draw that is never compared with the last item *)
Rejected_never(g) ==
    FALSE

(* the loop test: the draw equals the last item of the stream *)
Rejected(g) ==
    g.stream # <<>> /\ g.distractor = Last(g.stream)

AppendTarget ==
    /\ gen.pc = "loop"
    /\ gen.i < N_STREAM_ITEMS
    /\ TargetSlot(gen)
    /\ gen' = [gen EXCEPT !.stream = Append(@, gen.target_letter), !.i = @ + 1]
    /\ UNCHANGED <<constructed, staircase, calls, setup, trial, collector,
                 session, labjack>>

DrawDistractor ==
    /\ gen.pc = "loop"
    /\ gen.i < N_STREAM_ITEMS
    /\ ~TargetSlot(gen)
    /\ \E d \in DistractorDraws(gen) :
           gen' = [gen EXCEPT !.pc = "drawn", !.distractor = d]
    /\ UNCHANGED <<constructed, staircase, calls, setup, trial, collector,
                 session, labjack>>

(* one more pass of the resampling loop; resampled records that the loop *)
(* body ran at least once while this stream was generated                *)
Resample ==
    /\ gen.pc = "drawn"
    /\ Rejected(gen)
    /\ \E d \in DistractorDraws(gen) :
           gen' = [gen EXCEPT !.distractor = d, !.resampled = TRUE]
    /\ UNCHANGED <<constructed, staircase, calls, setup, trial, collector,
                 session, labjack>>

AppendDistractor ==
    /\ gen.pc = "drawn"
    /\ ~Rejected(gen)
    /\ gen' = [gen EXCEPT !.pc = "loop", !.stream = Append(@, gen.distractor),
                          !.i = @ + 1, !.distractor = "None"]
    /\ UNCHANGED <<constructed, staircase, calls, setup, trial, collector,
                 session, labjack>>

FinishStream ==
    /\ gen.pc = "loop"
    /\ gen.i = N_STREAM_ITEMS
    /\ gen' = [gen EXCEPT !.pc = "done"]
    /\ UNCHANGED <<constructed, staircase, calls, setup, trial, collector,
                 session, labjack>>

StreamNext ==
    \/ ChooseTargetAdaptive
    \/ ChooseTargetLandolt
    \/ ChooseTargetLabjack
    \/ AppendTarget
    \/ DrawDistractor
    \/ Resample
    \/ AppendDistractor
    \/ FinishStream

SpecStream == StreamInit /\ [][StreamNext]_vars

(***************************************************************************)
(* C16: with a distractor set of exactly one element the resampling loop   *)
(* does not run forever: whenever a draw has been rejected, some draw can  *)
(* end the loop, or generation has stopped with a configuration error.     *)
(***************************************************************************)
C16_ResamplingCanEnd ==
    (gen.pc = "drawn" /\ Rejected(gen)) =>
        \E d \in DistractorDraws(gen) : d # Last(gen.stream)

(***************************************************************************)
(* C17: every generated stream has length N_STREAM_ITEMS; with the target  *)
(* present it holds exactly one target item, at the index returned as      *)
(* target_position, which is within [TARGET_POS_MIN, TARGET_POS_MAX], and  *)
(* every other item is a distractor; with the target absent it holds no    *)
(* target and target_position is None.                                     *)
(***************************************************************************)
PosMin(g) == IF g.variant = "labjack" THEN 5 ELSE 3
PosMax(g) == 8

IsDistractor(g, item) == \E k \in 1..Len(g.distractors) : g.distractors[k] = item

C17_StreamShape ==
    gen.pc = "done" =>
        /\ Len(gen.stream) = 16
        /\ gen.target_present =>
               /\ gen.target_position >= PosMin(gen)
               /\ gen.target_position <= PosMax(gen)
               /\ gen.stream[gen.target_position + 1] = gen.target_letter
               /\ ~IsDistractor(gen, gen.target_letter)
               /\ \A k \in 0..15 :
                      k # gen.target_position => IsDistractor(gen, gen.stream[k + 1])
        /\ ~gen.target_present =>
               /\ gen.target_position = position_None
               /\ \A k \in 0..15 : IsDistractor(gen, gen.stream[k + 1])

(* a finished labjack stream with its target in the last allowed slot *)
C17_Witness ==
    /\ gen.pc = "done"
    /\ gen.variant = "labjack"
    /\ gen.target_position = 8
    /\ gen.stream[9] = gen.target_letter
    /\ Len(gen.stream) = 16

(***************************************************************************)
(* C18: with at least two distractors no two adjacent items of a generated *)
(* stream are equal, the items next to the target included.                *)
(***************************************************************************)
C18_NoAdjacentRepeat ==
    Len(gen.distractors) >= 2 =>
        \A k \in 1..(Len(gen.stream) - 1) : gen.stream[k] # gen.stream[k + 1]

(* a finished stream in which a draw was rejected and resampled: the item *)
(* two places back would have repeated                                    *)
C18_Witness ==
    /\ gen.pc = "done"
    /\ Len(gen.distractors) >= 2
    /\ gen.target_present
    /\ gen.resampled
    /\ gen.stream[gen.target_position] # gen.stream[gen.target_position + 2]
    /\ gen.stream[1] = gen.stream[3]

(***************************************************************************)
(* Stream presentation in run_rsvp_trial: the frame loop, its triggers,    *)
(* the stream-end trigger and the response, for the "adaptive" script      *)
(* (serial port, per-item triggers) and the "landoltC" script (parallel    *)
(* port).  trial.fired lists the values of the send_trigger calls that     *)
(* returned, each with the place of the call; a port is "open" or "None".  *)
(***************************************************************************)
TRIGGER_STREAM_START == 100
TRIGGER_TARGET_ONSET == 200
TRIGGER_STREAM_END == 300
LANDOLT_TRIGGER_STREAM_START == 1
LANDOLT_TRIGGER_TARGET_ONSET == 2
LANDOLT_TRIGGER_STREAM_END == 3

TRIGGER_MAP(item) ==
    CASE item = "1" -> 1 [] item = "2" -> 2 [] item = "3" -> 3
      [] item = "4" -> 4 [] item = "5" -> 5 [] item = "6" -> 6
      [] item = "7" -> 7 [] item = "8" -> 8 [] item = "9" -> 9
      [] item = "C" -> 10 [] item = "D" -> 11 [] item = "H" -> 12
      [] item = "K" -> 13 [] item = "N" -> 14 [] item = "F" -> 15
      [] item = "R" -> 16 [] item = "S" -> 17 [] item = "V" -> 18
      [] item = "Z" -> 19

StreamStartCode(variant) ==
    IF variant = "adaptive" THEN TRIGGER_STREAM_START ELSE LANDOLT_TRIGGER_STREAM_START
TargetOnsetCode(variant) ==
    IF variant = "adaptive" THEN TRIGGER_TARGET_ONSET ELSE LANDOLT_TRIGGER_TARGET_ONSET
StreamEndCode(variant) ==
    IF variant = "adaptive" THEN TRIGGER_STREAM_END ELSE LANDOLT_TRIGGER_STREAM_END

(* bytes([value]) raises ValueError outside range(0, 256) *)
bytes_raises(value) == ~(value \in 0..255)

(* send_trigger: TRUE when the call raises.  The serial port takes         *)
(* bytes([trigger_value]); the parallel port takes the value; without a    *)
(* port the adaptive script logs a simulated send and landoltC does        *)
(* nothing.                                                                *)
send_trigger_raises(variant, port, trigger_value) ==
    /\ variant = "adaptive"
    /\ port = "open"
    /\ bytes_raises(trigger_value)

ItemDurationFrames == { 1, 2, 3 }
Ports == { "open", "None" }

(* a stream the generator can return for this target and position *)
GeneratedStream(target, position) ==
    [ k \in 1..N_STREAM_ITEMS |->
          IF k - 1 = position THEN target
          ELSE IF k % 2 = 1 THEN "1" ELSE "2" ]

TrialStart(variant, port, present, target, position, frames) ==
    [ pc |-> "pre_stream", variant |-> variant, port |-> port,
      target_present |-> present, target_letter |-> target,
      target_position |-> position,
      stream |-> GeneratedStream(target, position),
      item_duration_frames |-> frames, i |-> 0, frame |-> 0,
      fired |-> <<>>, response |-> "None" ]

TrialInit ==
    /\ session = Idle
    /\ labjack = Idle
    /\ trial \in
          { TrialStart("adaptive", port, TRUE, "C", position, frames) :
                port \in Ports,
                position \in random_randint(TARGET_POS_MIN, TARGET_POS_MAX),
                frames \in ItemDurationFrames }
          \cup { TrialStart("landoltC", port, TRUE, "target", position, frames) :
                port \in Ports,
                position \in random_randint(TARGET_POS_MIN, TARGET_POS_MAX),
                frames \in ItemDurationFrames }
          \cup { TrialStart("landoltC", port, FALSE, "target", position_None, frames) :
                port \in Ports, frames \in ItemDurationFrames }
    /\ constructed = Idle
    /\ staircase = NoStaircase
    /\ calls = <<>>
    /\ setup = Idle
    /\ gen = Idle
    /\ collector = Idle

(* one send_trigger call that returned *)
Fired(t, what, value) ==
    [ what |-> what, value |-> value, i |-> t.i, frame |-> t.frame ]

(* the send_trigger calls of one pass of the frame loop, in code order *)
StartTriggers(t) ==
    IF t.i = 0 /\ t.frame = 0
    THEN << Fired(t, "stream_start", StreamStartCode(t.variant)) >> ELSE <<>>

TargetTriggers(t) ==
    IF t.target_present /\ t.i = t.target_position /\ t.frame = 0
    THEN << Fired(t, "target_onset", TargetOnsetCode(t.variant)) >> ELSE <<>>

ItemTriggers(t) ==
    IF t.variant = "adaptive" /\ t.frame = 0
    THEN << Fired(t, "item", TRIGGER_MAP(t.stream[t.i + 1])) >> ELSE <<>>

FrameTriggers(t) == StartTriggers(t) \o TargetTriggers(t) \o ItemTriggers(t)

AnyRaises(t, triggers) ==
    \E k \in 1..Len(triggers) : send_trigger_raises(t.variant, t.port, triggers[k].value)

(* fixation cross, flip, wait: the frame loop begins *)
BeginStream ==
    /\ trial.pc = "pre_stream"
    /\ trial' = [trial EXCEPT !.pc = "frames"]
    /\ UNCHANGED <<constructed, staircase, calls, setup, gen, collector,
                 session, labjack>>

(* one pass of the inner loop: triggers of this frame, draw, flip *)
PresentFrame ==
    /\ trial.pc = "frames"
    /\ ~AnyRaises(trial, FrameTriggers(trial))
    /\ LET lastFrame == trial.frame + 1 = trial.item_duration_frames
           lastItem == trial.i + 1 = N_STREAM_ITEMS
       IN trial' = [trial EXCEPT
              !.fired = @ \o FrameTriggers(trial),
              !.frame = IF lastFrame THEN 0 ELSE @ + 1,
              !.i = IF lastFrame THEN @ + 1 ELSE @,
              !.pc = IF lastFrame /\ lastItem THEN "stream_end" ELSE "frames"]
    /\ UNCHANGED <<constructed, staircase, calls, setup, gen, collector,
                 session, labjack>>

(* send_trigger(port, TRIGGER_STREAM_END) returns; post-stream fixation *)
StreamEnd ==
    /\ trial.pc = "stream_end"
    /\ ~send_trigger_raises(trial.variant, trial.port, StreamEndCode(trial.variant))
    /\ trial' = [trial EXCEPT
           !.fired = Append(@, Fired(trial, "stream_end", StreamEndCode(trial.variant))),
           !.pc = "response"]
    /\ UNCHANGED <<constructed, staircase, calls, setup, gen, collector,
                 session, labjack>>

(* send_trigger(port, TRIGGER_STREAM_END) raises: the trial is abandoned *)
StreamEndRaises ==
    /\ trial.pc = "stream_end"
    /\ send_trigger_raises(trial.variant, trial.port, StreamEndCode(trial.variant))
    /\ trial' = [trial EXCEPT !.pc = "raised"]
    /\ UNCHANGED <<constructed, staircase, calls, setup, gen, collector,
                 session, labjack>>

(* collect_response / collect_yes_no_response returns *)
Respond ==
    /\ trial.pc = "response"
    /\ \E r \in (IF trial.variant = "adaptive" THEN { "C", "D" } ELSE { "y", "n" }) :
           trial' = [trial EXCEPT !.pc = "done", !.response = r]
    /\ UNCHANGED <<constructed, staircase, calls, setup, gen, collector,
                 session, labjack>>

TrialNext ==
    \/ BeginStream
    \/ PresentFrame
    \/ StreamEnd
    \/ StreamEndRaises
    \/ Respond

SpecTrial == TrialInit /\ [][TrialNext]_vars

FiredOf(what) == SelectSeq(trial.fired, LAMBDA f : f.what = what)

(* the stream loop has been left: the code is past the stream-end call *)
StreamOver == trial.pc \in { "response", "done", "raised" }

(***************************************************************************)
(* C19: in a trial with a target the stream-start, target-onset and        *)
(* stream-end triggers are each fired exactly once and in that order:      *)
(* stream-start on the first frame of item 0, target-onset on the first    *)
(* frame of the target item, stream-end after the last frame of the last   *)
(* item and before the response; without a target no target-onset fires.   *)
(***************************************************************************)
C19_TriggersOnceInOrder ==
    /\ Len(FiredOf("stream_start")) <= 1
    /\ Len(FiredOf("target_onset")) <= 1
    /\ Len(FiredOf("stream_end")) <= 1
    /\ ~trial.target_present => FiredOf("target_onset") = <<>>
    /\ \A f \in { trial.fired[k] : k \in 1..Len(trial.fired) } :
           /\ f.what = "stream_start" => f.i = 0 /\ f.frame = 0
           /\ f.what = "target_onset" => f.i = trial.target_position /\ f.frame = 0
           /\ f.what = "stream_end" => f.i = N_STREAM_ITEMS
    /\ trial.pc = "frames" /\ (trial.i > 0 \/ trial.frame > 0) =>
           Len(FiredOf("stream_start")) = 1
    /\ trial.pc = "frames" /\ trial.target_present
         /\ (trial.i > trial.target_position
               \/ (trial.i = trial.target_position /\ trial.frame > 0)) =>
           Len(FiredOf("target_onset")) = 1
    /\ StreamOver =>
           /\ Len(FiredOf("stream_start")) = 1
           /\ trial.target_present => Len(FiredOf("target_onset")) = 1
           /\ Len(FiredOf("stream_end")) = 1
           /\ trial.fired[1].what = "stream_start"
           /\ Last(trial.fired).what = "stream_end"
    /\ trial.pc = "done" => Len(FiredOf("stream_end")) = 1

(***************************************************************************)
(* collect_response: the typed-response loop of the "adaptive" script      *)
(* (the same code is in rsvp_experiment_letters.py and                     *)
(* rsvp_experiment_contrastgratings.py) and of the "labjack" script, which *)
(* is called once with the letter prompt and once with the symbol prompt.  *)
(* collector.expected is what the caller compares the response with: the   *)
(* target letter, or the end symbol the trial drew.                        *)
(* One step per non-empty result of event.getKeys; a poll that returns no  *)
(* key redraws and changes nothing.  A string is a sequence of characters. *)
(* collector.ignored and collector.erased record that a Return on an empty *)
(* buffer was passed over and that backspace emptied the buffer.           *)
(***************************************************************************)
MaxKeyBatches == 4
MaxBatchLen == 2

LetterKeys == { "c", "d" }
BaseKeys == { "backspace", "return", "enter", "escape" }
SymbolKeys == { "equal", "plus", "minus", "kp_add", "kp_subtract", "kp_equal" }

(* str.upper() on the modelled letters; key_name_to_char_map on letters *)
upper_char(ch) == CASE ch = "c" -> "C" [] ch = "d" -> "D" [] OTHER -> ch

upper(string) == [ k \in 1..Len(string) |-> upper_char(string[k]) ]

(* key_name_to_char_map, None written "None" *)
key_name_to_char_map(key) ==
    CASE key \in LetterKeys -> upper_char(key)
      [] key = "plus" -> "+"
      [] key = "minus" -> "-"
      [] key = "kp_add" -> "+"
      [] key = "kp_subtract" -> "-"
      [] key = "kp_equal" -> "="
      [] OTHER -> "None"

(* the expected_chars_list of the symbol prompt's call *)
SymbolExpectedChars == << "+", "=" >>

(* active_allowed_chars *)
active_allowed_chars(prompt) ==
    IF prompt = "symbol"
    THEN { SymbolExpectedChars[k] : k \in 1..Len(SymbolExpectedChars) } \cap { "+", "-", "=" }
    ELSE { "C", "D" }

(* the keyList passed to event.getKeys *)
KeyList(variant, prompt) ==
    IF variant = "adaptive" THEN LetterKeys \cup BaseKeys
    ELSE BaseKeys
         \cup (IF active_allowed_chars(prompt) \cap { "C", "D" } # {} THEN LetterKeys ELSE {})
         \cup (IF active_allowed_chars(prompt) \cap { "+", "-", "=" } # {} THEN SymbolKeys ELSE {})

(* key events: a key name and the state of Shift *)
KeyEvents(variant, prompt) ==
    { [ key |-> k, shift |-> FALSE ] : k \in KeyList(variant, prompt) }
    \cup { [ key |-> k, shift |-> TRUE ] : k \in KeyList(variant, prompt) \cap { "equal" } }

KeyBatches(variant, prompt) ==
    UNION { [ 1..n -> KeyEvents(variant, prompt) ] : n \in 1..MaxBatchLen }

CollectorStart(variant, prompt, expected) ==
    [ pc |-> "waiting", variant |-> variant, prompt |-> prompt,
      expected |-> expected,
      response_str |-> <<>>, returned |-> <<>>, last |-> "None",
      batches |-> 0, ignored |-> FALSE, erased |-> FALSE ]

CollectInit ==
    /\ session = Idle
    /\ labjack = Idle
    /\ collector \in
          { CollectorStart("adaptive", "letter", letter) : letter \in { "C", "D" } }
          \cup { CollectorStart("labjack", "letter", letter) : letter \in { "C", "D" } }
          \cup { CollectorStart("labjack", "symbol", FIXATION_SYMBOLS[e + 1]) :
                     e \in rng_randint(0, Len(FIXATION_SYMBOLS)) }
    /\ constructed = Idle
    /\ staircase = NoStaircase
    /\ calls = <<>>
    /\ setup = Idle
    /\ gen = Idle
    /\ trial = Idle

(* response_str[:-1] *)
ButLast(string) == SubSeq(string, 1, Len(string) - 1)

(* a Return that is taken whatever the buffer holds *)
return_accepted_always(response_str) ==
    TRUE

(* `if response_str:` *)
return_accepted(response_str) ==
    response_str # <<>>

Backspaced(c) ==
    [c EXCEPT !.response_str = ButLast(@),
              !.erased = @ \/ Len(c.response_str) = 1]

(* escape taken as a Return: the response comes back to the caller *)
adaptive_key_escape_returns(c, event) ==
    LET key == event.key
        seen == [c EXCEPT !.last = key]
    IN CASE key \in { "escape", "return", "enter" } ->
                [seen EXCEPT !.pc = "returned", !.returned = upper(c.response_str)]
         [] key = "backspace" -> Backspaced(seen)
         [] OTHER -> [seen EXCEPT !.response_str = Append(@, key)]

(* adaptive: the branches on key = keys[0] *)
adaptive_key(c, event) ==
    LET key == event.key
        seen == [c EXCEPT !.last = key]
    IN CASE key = "escape" -> [seen EXCEPT !.pc = "quit"]
         [] key \in { "return", "enter" } ->
                IF return_accepted(c.response_str)
                THEN [seen EXCEPT !.pc = "returned", !.returned = upper(c.response_str)]
                ELSE [seen EXCEPT !.ignored = TRUE]
         [] key = "backspace" -> Backspaced(seen)
         [] OTHER -> [seen EXCEPT !.response_str = Append(@, key)]

(* labjack: the character a key event stands for *)
char_to_add(event) ==
    CASE event.key = "equal" -> IF event.shift THEN "+" ELSE "="
      [] event.key = "minus" -> "-"
      [] OTHER -> key_name_to_char_map(event.key)

(* labjack: the branches on one (key_name_pressed, mods) *)
labjack_key(c, event) ==
    LET key == event.key
        seen == [c EXCEPT !.last = key]
    IN CASE key = "escape" -> [seen EXCEPT !.pc = "quit"]
         [] key \in { "return", "enter" } ->
                IF return_accepted(c.response_str)
                THEN [seen EXCEPT !.pc = "returned", !.returned = c.response_str]
                ELSE [seen EXCEPT !.ignored = TRUE]
         [] key = "backspace" -> Backspaced(seen)
         [] OTHER ->
                IF char_to_add(event) # "None"
                     /\ char_to_add(event) \in active_allowed_chars(c.prompt)
                THEN IF c.prompt = "symbol"
                     THEN [seen EXCEPT !.response_str = << char_to_add(event) >>]
                     ELSE [seen EXCEPT !.response_str = Append(@, char_to_add(event))]
                ELSE seen

(* labjack: the for loop over the key events of one frame; it ends at the *)
(* accepted Return (break) and at escape (core.quit())                    *)
RECURSIVE labjack_keys(_, _)
labjack_keys(c, events) ==
    IF events = <<>> \/ c.pc # "waiting" THEN c
    ELSE labjack_keys(labjack_key(c, Head(events)), Tail(events))

AdaptiveKeys ==
    /\ collector.pc = "waiting"
    /\ collector.variant = "adaptive"
    /\ collector.batches < MaxKeyBatches
    /\ \E keys \in KeyBatches(collector.variant, collector.prompt) :
           collector' = [adaptive_key(collector, keys[1]) EXCEPT !.batches = @ + 1]
    /\ UNCHANGED <<constructed, staircase, calls, setup, gen, trial,
                 session, labjack>>

LabjackKeys ==
    /\ collector.pc = "waiting"
    /\ collector.variant = "labjack"
    /\ collector.batches < MaxKeyBatches
    /\ \E keys_with_mods \in KeyBatches(collector.variant, collector.prompt) :
           collector' = [labjack_keys(collector, keys_with_mods) EXCEPT !.batches = @ + 1]
    /\ UNCHANGED <<constructed, staircase, calls, setup, gen, trial,
                 session, labjack>>

CollectNext ==
    \/ AdaptiveKeys
    \/ LabjackKeys

SpecCollect == CollectInit /\ [][CollectNext]_vars

(***************************************************************************)
(* C20: collect_response returns only on Return/Enter received while the   *)
(* typed buffer is non-empty; Return/Enter on an empty buffer (at first,   *)
(* or after everything was backspaced) is passed over and the collector    *)
(* keeps waiting, so the returned response is never the empty string.      *)
(***************************************************************************)
C20_ReturnsOnlyNonEmpty ==
    /\ collector.pc = "returned" =>
           /\ collector.last \in { "return", "enter" }
           /\ collector.response_str # <<>>
           /\ collector.returned # <<>>
    /\ collector.pc = "waiting" /\ collector.last \in { "return", "enter" } =>
           /\ collector.response_str = <<>>
           /\ collector.ignored

(* a response returned after a Return on the emptied buffer was passed over *)
C20_Witness ==
    /\ collector.pc = "returned"
    /\ collector.ignored
    /\ collector.erased
    /\ collector.returned # <<>>

(***************************************************************************)
(* The two classes side by side: the object of the other class that holds  *)
(* the same field values.                                                  *)
(***************************************************************************)
Twin(self) ==
    IF self.cls = "SizeStaircase"
    THEN [ cls                   |-> "ContrastStaircase",
           contrast_values       |-> self.logmar_values,
           current_index         |-> self.current_index,
           last_response_correct |-> self.last_response_correct,
           consecutive_errors    |-> self.consecutive_errors,
           reversal_count        |-> self.reversal_count,
           reversal_points       |-> self.reversal_points,
           direction             |-> self.direction,
           trials                |-> self.trials,
           responses             |-> self.responses ]
    ELSE [ cls                   |-> "SizeStaircase",
           logmar_values         |-> self.contrast_values,
           current_index         |-> self.current_index,
           last_response_correct |-> self.last_response_correct,
           consecutive_errors    |-> self.consecutive_errors,
           reversal_count        |-> self.reversal_count,
           reversal_points       |-> self.reversal_points,
           direction             |-> self.direction,
           trials                |-> self.trials,
           responses             |-> self.responses ]

(* the other class constructed over the same arguments *)
TwinConstructed ==
    IF staircase.cls = "SizeStaircase"
    THEN ContrastStaircase_init(constructed.values, constructed.starting)
    ELSE SizeStaircase_init(constructed.values, constructed.starting)

(***************************************************************************)
(* C24: SizeStaircase and ContrastStaircase are the same state machine:    *)
(* constructed over the same level list and starting value and fed the     *)
(* same responses, they agree on every field, on the returned dict, on     *)
(* is_complete() and on the threshold after every call.                    *)
(***************************************************************************)
C24_SameStateMachine ==
    /\ TwinConstructed = Twin(StateAfter(0))
    /\ \A j \in 1..NCalls :
           LET r == record_response(Twin(calls[j].pre), calls[j].correct)
           IN  /\ r.self = Twin(StateAfter(j))
               /\ r.info = calls[j].info
    /\ \A j \in 0..NCalls :
           /\ is_complete(Twin(StateAfter(j))) = is_complete(StateAfter(j))
           /\ get_threshold(Twin(StateAfter(j))) = get_threshold(StateAfter(j))

(* a size staircase that ran to completion through three reversals *)
C24_Witness ==
    /\ staircase.cls = "SizeStaircase"
    /\ is_complete(staircase)
    /\ Len(staircase.reversal_points) >= 3
    /\ is_complete(Twin(staircase))

(***************************************************************************)
(* C29: in every reachable staircase state reversal_count equals the       *)
(* number of recorded reversal points and trials equals len(responses);    *)
(* so whenever is_complete() is true get_threshold() is the mean of        *)
(* reversal points and never the current-level fallback.                   *)
(***************************************************************************)
ReversalValues(self) ==
    [ i \in 1..Len(self.reversal_points) |-> self.reversal_points[i][2] ]

C29_CountersMatchLists ==
    /\ staircase.reversal_count = Len(staircase.reversal_points)
    /\ staircase.trials = Len(staircase.responses)
    /\ is_complete(staircase) =>
           /\ Len(staircase.reversal_points) >= 2
           /\ get_threshold(staircase) = np_mean(LastN(ReversalValues(staircase), 2))

(* a complete contrast staircase whose threshold differs from its level *)
C29_Witness ==
    /\ staircase.cls = "ContrastStaircase"
    /\ is_complete(staircase)
    /\ staircase.reversal_count = 2
    /\ get_threshold(staircase).den = 2
    /\ get_threshold(staircase).num # 2 * ContrastStaircase_get_current_contrast(staircase)

(***************************************************************************)
(* C25: with the built-in default contrast values and CONTRAST_START_PCT   *)
(* the first trial of a contrast-staircase phase is presented at 100%      *)
(* contrast, the maximum contrast of the scale.                            *)
(***************************************************************************)
MaxLevel(values) ==
    CHOOSE m \in { float(values[k]) : k \in 1..Len(values) } :
        \A k \in 1..Len(values) : float(values[k]) <= m

C25_FirstContrastTrialAtFull ==
    ( /\ setup.pc = "trial"
      /\ setup.cls = "ContrastStaircase"
      /\ constructed.values = DefaultContrastValues
      /\ constructed.starting = CONTRAST_START_PCT ) =>
        /\ setup.level = << CONTRAST_START_PCT >>
        /\ setup.level = << MaxLevel(constructed.values) >>

(***************************************************************************)
(* C27: in the LabJack variant the symbol prompt accepts the end symbols a *)
(* trial can show: whichever end symbol was drawn, some key sequence makes *)
(* collect_response return it (symbol_accuracy 1).  The symbol prompt      *)
(* keeps only the last accepted character, so this is: while the prompt    *)
(* waits, some key event sets the buffer to the drawn end symbol.          *)
(***************************************************************************)
C27_EndSymbolCanBeTyped ==
    (collector.pc = "waiting" /\ collector.prompt = "symbol") =>
        \E event \in KeyEvents(collector.variant, collector.prompt) :
            labjack_key(collector, event).response_str = << collector.expected >>

(***************************************************************************)
(* The adaptive script from its first practice trial to the results        *)
(* screen: practice, then for each eye the size phase and the contrast     *)
(* phase.  session holds the script's globals and the locals of the phase  *)
(* that is running.  session.script is the participant: the answer given   *)
(* to the n-th trial of a phase is correct for the first `lead` trials and *)
(* then follows `tail` cyclically; at any trial the participant may press  *)
(* escape instead.  session.phases lists the phases begun so far,         *)
(* session.prompted records whether the next-trial prompt followed the     *)
(* last trial and session.escaped that the collector handled an escape     *)
(* key.  A size in degrees is kept as the LogMAR value it was       *)
(* computed from (in 1/200); a colour value is in 1/10000.                 *)
(***************************************************************************)
max_trials == 100
N_PRACTICE_TRIALS == 2
background_color == 0
FULL_CONTRAST_COLOR == 0 - 10000

Leads == { 0, 12, 96, 97 }
Tails == { <<TRUE>>, <<FALSE>>, <<TRUE, FALSE>>, <<FALSE, TRUE>>,
           <<TRUE, TRUE, FALSE, FALSE>>, <<FALSE, FALSE, TRUE>> }
Scripts == { [lead |-> l, tail |-> t] : l \in Leads, t \in Tails }

ScriptResponse(script, n) ==
    IF n <= script.lead THEN TRUE
    ELSE script.tail[((n - script.lead - 1) % Len(script.tail)) + 1]

(* the level lists the script loaded: the defaults, or CSV columns *)
LoadedLevels ==
    { [logmar_values |-> DefaultLogmarValues, contrast_values |-> DefaultContrastValues],
      [logmar_values |-> CsvDescending, contrast_values |-> ShortStrings] }

(* logmar_to_degrees: 5 * 10^x / 60, kept as x; x is a fraction over 1 or 2 *)
logmar_to_degrees(x) == [ logmar200 |-> (2 * x.num) \div x.den ]

(* contrast_pct_to_color_value: bg - contrast * (1 - bg) *)
contrast_pct_to_color_value(contrast_pct, bg) ==
    bg - (contrast_pct * (10000 - bg)) \div 10000

ThresholdKey(phase) ==
    CASE phase = "left_size" -> "left_size_threshold"
      [] phase = "left_contrast" -> "left_contrast_threshold"
      [] phase = "right_size" -> "right_size_threshold"
      [] phase = "right_contrast" -> "right_contrast_threshold"

(* a threshold not yet assigned: no fraction has denominator 0 *)
NoThreshold == [num |-> 0, den |-> 0]

NoResults ==
    [ left_size_threshold |-> NoThreshold, left_contrast_threshold |-> NoThreshold,
      right_size_threshold |-> NoThreshold, right_contrast_threshold |-> NoThreshold ]

(* the order of the calls in the main script *)
PhaseAfter(phase) ==
    CASE phase = "practice" -> "left_size"
      [] phase = "left_size" -> "left_contrast"
      [] phase = "left_contrast" -> "right_size"
      [] phase = "right_size" -> "right_contrast"
      [] phase = "right_contrast" -> "results"

IsSizePhase(phase) == phase \in { "left_size", "right_size" }
IsContrastPhase(phase) == phase \in { "left_contrast", "right_contrast" }
SizePhaseOf(phase) == IF phase = "left_contrast" THEN "left_size" ELSE "right_size"

SessionInit ==
    /\ \E port \in Ports, levels \in LoadedLevels, script \in Scripts :
           session = [ pc |-> "practice", port |-> port,
                       logmar_values |-> levels.logmar_values,
                       contrast_values |-> levels.contrast_values,
                       script |-> script, phase |-> "practice",
                       phases |-> << "practice" >>, trial_num |-> 0,
                       staircase |-> NoStaircase, size_threshold |-> NoThreshold,
                       results |-> NoResults, target |-> "None",
                       shown |-> "None", response |-> "None",
                       prompted |-> FALSE, escaped |-> FALSE ]
    /\ constructed = Idle
    /\ staircase = NoStaircase
    /\ calls = <<>>
    /\ setup = Idle
    /\ gen = Idle
    /\ trial = Idle
    /\ collector = Idle
    /\ labjack = Idle

(* key names as getKeys reports them, one per poll *)
KeyOf(letter) == IF letter = "C" THEN "c" ELSE "d"
OtherLetter(letter) == IF letter = "C" THEN "D" ELSE "C"

(* what the participant types: the answer and Return, or escape *)
TypedKeys(target, correct) ==
    { << KeyOf(IF correct THEN target ELSE OtherLetter(target)), "return" >>,
      << "escape" >>,
      << KeyOf(target), "escape" >> }

(* collect_response over the polls: the collector when it stops *)
RECURSIVE adaptive_keys(_, _)
adaptive_keys(c, keys) ==
    IF keys = <<>> \/ c.pc # "waiting" THEN c
    ELSE adaptive_keys(adaptive_key(c, [key |-> Head(keys), shift |-> FALSE]), Tail(keys))

collect_response(target, keys) ==
    adaptive_keys(CollectorStart("adaptive", "letter", target), keys)

(* run_rsvp_trial up to its return: the stream-end trigger raises on an   *)
(* open serial port                                                       *)
TrialRaises(s) == send_trigger_raises("adaptive", s.port, TRIGGER_STREAM_END)

InTrial(s) ==
    \/ s.pc = "practice" /\ s.trial_num < N_PRACTICE_TRIALS
    \/ s.pc = "trial"

(* `while not staircase.is_complete()` without the safety limit *)
LoopContinues_no_cap(s) ==
    ~is_complete(s.staircase)

(* the test of the trial loop *)
LoopContinues(s) ==
    ~is_complete(s.staircase) /\ s.trial_num < max_trials

(* the test before show_message(next_trial_text), after the trial *)
ShowsNextTrialPrompt(s) ==
    ~is_complete(s.staircase) /\ s.trial_num < max_trials - 1

(* a practice trial that returns *)
PracticeTrial ==
    /\ session.pc = "practice"
    /\ session.trial_num < N_PRACTICE_TRIALS
    /\ ~TrialRaises(session)
    /\ \E target \in { "C", "D" }, correct \in BOOLEAN :
         \E keys \in TypedKeys(target, correct) :
           LET c == collect_response(target, keys)
           IN  /\ c.pc = "returned"
               /\ session' = [session EXCEPT
                      !.trial_num = @ + 1,
                      !.target = target,
                      !.shown = [ size |-> logmar_to_degrees(float_value(float(
                                      session.logmar_values[
                                          IF 3 < Len(session.logmar_values) - 1
                                          THEN 4 ELSE Len(session.logmar_values)]))),
                                  color |-> FULL_CONTRAST_COLOR ],
                      !.response = c.returned,
                      !.escaped = @ \/ c.last = "escape",
                      !.prompted = (session.trial_num < N_PRACTICE_TRIALS - 1)]
    /\ UNCHANGED <<constructed, staircase, calls, setup, gen, trial, collector, labjack>>

(* run_size_staircase up to its loop *)
StartSizePhase ==
    /\ \/ session.pc = "practice" /\ session.trial_num = N_PRACTICE_TRIALS
       \/ session.pc = "phase_done"
    /\ IsSizePhase(PhaseAfter(session.phase))
    /\ session' = [session EXCEPT
           !.pc = "loop",
           !.phase = PhaseAfter(session.phase),
           !.phases = Append(@, PhaseAfter(session.phase)),
           !.staircase = SizeStaircase_init(session.logmar_values, SIZE_LOGMAR_START),
           !.size_threshold = NoThreshold,
           !.trial_num = 0, !.prompted = FALSE]
    /\ UNCHANGED <<constructed, staircase, calls, setup, gen, trial, collector, labjack>>

(* run_contrast_staircase(eye, size_threshold) up to its loop *)
StartContrastPhase ==
    /\ session.pc = "phase_done"
    /\ IsContrastPhase(PhaseAfter(session.phase))
    /\ session' = [session EXCEPT
           !.pc = "loop",
           !.phase = PhaseAfter(session.phase),
           !.phases = Append(@, PhaseAfter(session.phase)),
           !.staircase = ContrastStaircase_init(session.contrast_values, CONTRAST_START_PCT),
           !.size_threshold = session.results[ThresholdKey(session.phase)],
           !.trial_num = 0, !.prompted = FALSE]
    /\ UNCHANGED <<constructed, staircase, calls, setup, gen, trial, collector, labjack>>

(* the contrast phase shown at the starting size, not at the threshold *)
Stimulus_start_size(s) ==
    IF s.staircase.cls = "SizeStaircase"
    THEN [ size |-> logmar_to_degrees(float_value(SizeStaircase_get_current_logmar(s.staircase))),
           color |-> FULL_CONTRAST_COLOR ]
    ELSE [ size |-> logmar_to_degrees(float_value(SIZE_LOGMAR_START)),
           color |-> contrast_pct_to_color_value(
                         ContrastStaircase_get_current_contrast(s.staircase),
                         background_color) ]

(* the stimulus of the trial that starts now *)
Stimulus(s) ==
    IF s.staircase.cls = "SizeStaircase"
    THEN [ size |-> logmar_to_degrees(float_value(SizeStaircase_get_current_logmar(s.staircase))),
           color |-> FULL_CONTRAST_COLOR ]
    ELSE [ size |-> logmar_to_degrees(s.size_threshold),
           color |-> contrast_pct_to_color_value(
                         ContrastStaircase_get_current_contrast(s.staircase),
                         background_color) ]

(* the loop test holds: trial_num += 1, the current level is read and the *)
(* stream is presented                                                    *)
BeginTrial ==
    /\ session.pc = "loop"
    /\ LoopContinues(session)
    /\ \E target \in { "C", "D" } :
           session' = [session EXCEPT
               !.pc = "trial", !.trial_num = @ + 1, !.target = target,
               !.shown = Stimulus(session), !.response = "None",
               !.prompted = FALSE]
    /\ UNCHANGED <<constructed, staircase, calls, setup, gen, trial, collector, labjack>>

(* the response comes back: record_response, the log entry, the break on  *)
(* completion, the next-trial prompt                                      *)
TrialResponded ==
    /\ session.pc = "trial"
    /\ ~TrialRaises(session)
    /\ \E keys \in TypedKeys(session.target,
                            ScriptResponse(session.script, session.trial_num)) :
           LET c == collect_response(session.target, keys)
               acc == IF c.returned = << session.target >> THEN 1 ELSE 0
               r == record_response(session.staircase, acc = 1)
               after == [session EXCEPT !.staircase = r.self, !.response = c.returned,
                                        !.escaped = @ \/ c.last = "escape"]
           IN  /\ c.pc = "returned"
               /\ session' = IF is_complete(after.staircase)
                             THEN [after EXCEPT !.pc = "return"]
                             ELSE [after EXCEPT !.pc = "loop",
                                                !.prompted = ShowsNextTrialPrompt(after)]
    /\ UNCHANGED <<constructed, staircase, calls, setup, gen, trial, collector, labjack>>

(* escape in collect_response: core.quit() ends the process *)
TrialEscaped ==
    /\ InTrial(session)
    /\ ~TrialRaises(session)
    /\ \E target \in { "C", "D" }, correct \in BOOLEAN :
         \E keys \in TypedKeys(target, correct) :
           /\ session.pc = "trial" => target = session.target
           /\ collect_response(target, keys).pc = "quit"
           /\ session' = [session EXCEPT !.pc = "quit", !.escaped = TRUE]
    /\ UNCHANGED <<constructed, staircase, calls, setup, gen, trial, collector, labjack>>

(* the stream-end trigger raises ValueError: the script ends in the trial *)
TrialRaised ==
    /\ InTrial(session)
    /\ TrialRaises(session)
    /\ session' = [session EXCEPT !.pc = "raised"]
    /\ UNCHANGED <<constructed, staircase, calls, setup, gen, trial, collector, labjack>>

(* the loop is left, by its test or by break: return get_threshold(), and *)
(* the main script stores it                                              *)
ReturnThreshold ==
    /\ \/ session.pc = "return"
       \/ session.pc = "loop" /\ ~LoopContinues(session)
    /\ session' = [session EXCEPT
           !.pc = "phase_done",
           !.results = [@ EXCEPT ![ThresholdKey(session.phase)] =
                                     get_threshold(session.staircase)]]
    /\ UNCHANGED <<constructed, staircase, calls, setup, gen, trial, collector, labjack>>

(* both eyes done: the results summary *)
ShowResults ==
    /\ session.pc = "phase_done"
    /\ PhaseAfter(session.phase) = "results"
    /\ session' = [session EXCEPT !.pc = "done", !.phase = "results",
                                  !.phases = Append(@, "results")]
    /\ UNCHANGED <<constructed, staircase, calls, setup, gen, trial, collector, labjack>>

SessionNext ==
    \/ PracticeTrial
    \/ StartSizePhase
    \/ StartContrastPhase
    \/ BeginTrial
    \/ TrialResponded
    \/ TrialEscaped
    \/ TrialRaised
    \/ ReturnThreshold
    \/ ShowResults

SpecSession == SessionInit /\ [][SessionNext]_vars

(***************************************************************************)
(* C21: when the response collector handles an escape key the whole        *)
(* session is aborted at once: no response comes back for the trial, no    *)
(* record_response call is made for it, no further trial or phase starts   *)
(* and no threshold is produced.                                           *)
(***************************************************************************)
InStaircasePhase == IsSizePhase(session.phase) \/ IsContrastPhase(session.phase)

C21_EscapeAbortsSession ==
    /\ session.escaped => session.pc = "quit"
    /\ session.pc = "quit" =>
           /\ session.escaped
           /\ session.phases[Len(session.phases)] = session.phase
           /\ session.phase = "practice" =>
                  /\ session.trial_num < N_PRACTICE_TRIALS
                  /\ session.staircase = NoStaircase
                  /\ session.results = NoResults
           /\ InStaircasePhase =>
                  /\ session.response = "None"
                  /\ session.staircase.trials = session.trial_num - 1
                  /\ Len(session.staircase.responses) = session.trial_num - 1
                  /\ session.results[ThresholdKey(session.phase)] = NoThreshold

(* escape in the third trial of the left eye's contrast phase *)
C21_Witness ==
    /\ session.pc = "quit"
    /\ session.phase = "left_contrast"
    /\ session.trial_num = 3
    /\ session.results.left_size_threshold # NoThreshold
    /\ session.results.left_contrast_threshold = NoThreshold

(***************************************************************************)
(* C22: the phases run in the order practice, left size, left contrast,    *)
(* right size, right contrast; a contrast phase starts only after the same *)
(* eye's size phase has ended and shows every trial at the size of that    *)
(* phase's returned threshold while only the contrast varies; every        *)
(* size-phase trial is shown at full contrast at the staircase's current   *)
(* level.                                                                  *)
(***************************************************************************)
PhaseOrder ==
    << "practice", "left_size", "left_contrast", "right_size", "right_contrast",
       "results" >>

C22_PhaseOrderAndStimulus ==
    /\ Len(session.phases) <= Len(PhaseOrder)
    /\ session.phases = SubSeq(PhaseOrder, 1, Len(session.phases))
    /\ IsContrastPhase(session.phase) =>
           /\ session.results[ThresholdKey(SizePhaseOf(session.phase))] # NoThreshold
           /\ session.size_threshold =
                  session.results[ThresholdKey(SizePhaseOf(session.phase))]
    /\ (session.pc = "trial" /\ IsContrastPhase(session.phase)) =>
           /\ session.shown.size =
                  logmar_to_degrees(session.results[ThresholdKey(SizePhaseOf(session.phase))])
           /\ session.shown.color =
                  contrast_pct_to_color_value(
                      float(session.staircase.contrast_values[
                                session.staircase.current_index + 1]), 0)
    /\ (session.pc = "trial" /\ IsSizePhase(session.phase)) =>
           /\ session.shown.color = 0 - 10000
           /\ session.shown.size =
                  logmar_to_degrees(float_value(float(
                      session.staircase.logmar_values[session.staircase.current_index + 1])))

(* a trial of the right eye's contrast phase, at a size threshold that is *)
(* the mean of two reversal points                                        *)
C22_Witness ==
    /\ session.pc = "trial"
    /\ session.phase = "right_contrast"
    /\ session.trial_num > 1
    /\ session.size_threshold.den = 2
    /\ session.shown.size # logmar_to_degrees(float_value(SIZE_LOGMAR_START))
    /\ session.shown.color # 0 - 10000

(***************************************************************************)
(* C23: each staircase phase ends after at most 100 trials and returns a   *)
(* threshold, even when is_complete() never becomes true; the loop ends    *)
(* exactly at the first trial count at which is_complete() holds or the    *)
(* count reaches 100.                                                      *)
(***************************************************************************)
C23_PhaseEndsByCap ==
    InStaircasePhase =>
        /\ session.trial_num <= 100
        /\ session.pc = "trial" =>
               /\ ~is_complete(session.staircase)
               /\ session.staircase.trials = session.trial_num - 1
        /\ session.pc \in { "loop", "return", "phase_done" } =>
               session.staircase.trials = session.trial_num
        /\ session.pc = "return" => is_complete(session.staircase)
        /\ session.pc = "phase_done" =>
               /\ is_complete(session.staircase) \/ session.trial_num = 100
               /\ session.results[ThresholdKey(session.phase)] =
                      get_threshold(session.staircase)

(* a phase that ended at the cap without being complete, and returned *)
C23_Witness ==
    /\ session.pc = "phase_done"
    /\ session.phase = "left_size"
    /\ session.trial_num = 100
    /\ ~is_complete(session.staircase)
    /\ session.results.left_size_threshold # NoThreshold

(***************************************************************************)
(* C26: the 'Press SPACE to start the next trial' prompt is shown after a  *)
(* trial if and only if another trial of the same phase follows.           *)
(***************************************************************************)
C26_PromptIffAnotherTrial ==
    /\ (InStaircasePhase /\ session.pc = "loop" /\ session.trial_num >= 1) =>
           (session.prompted <=> LoopContinues(session))
    /\ (InStaircasePhase /\ session.pc = "return") => ~session.prompted

(***************************************************************************)
(* C30: after responses with no two consecutive incorrect ones             *)
(* reversal_count is 0, direction is never 1, current_index never          *)
(* decreases and is_complete() is false; a phase driven by such responses  *)
(* runs exactly 100 trials and returns the current-level fallback.         *)
(***************************************************************************)
NoDoubleError(responses) ==
    \A k \in 1..(Len(responses) - 1) : responses[k] \/ responses[k + 1]

CurrentLevel(self) == float(Levels(self)[self.current_index + 1])

C30_State ==
    (InStaircasePhase /\ NoDoubleError(session.staircase.responses)) =>
        /\ session.staircase.reversal_count = 0
        /\ session.staircase.direction # 1
        /\ ~is_complete(session.staircase)
        /\ session.pc = "phase_done" =>
               /\ session.staircase.trials = 100
               /\ session.results[ThresholdKey(session.phase)] =
                      float_value(CurrentLevel(session.staircase))

C30_Step ==
    ( /\ session.staircase # NoStaircase
      /\ session'.phase = session.phase
      /\ NoDoubleError(session'.staircase.responses) ) =>
        session'.staircase.current_index >= session.staircase.current_index

C30_NoReversalWithoutErrorPair == []C30_State /\ [][C30_Step]_vars

(* a phase run to the cap on alternating answers *)
C30_Witness ==
    /\ session.pc = "phase_done"
    /\ session.phase = "right_size"
    /\ NoDoubleError(session.staircase.responses)
    /\ \E k \in 1..Len(session.staircase.responses) : ~session.staircase.responses[k]
    /\ session.staircase.trials = 100
    /\ session.staircase.current_index = Len(session.staircase.logmar_values) - 1

(***************************************************************************)
(* The LabJack script's trial generator with its seeded generator.         *)
(* run_rsvp_trial builds a fresh np.random.RandomState from                *)
(* hash(participant ID + str(stim_size_deg) + str(require_response)) and   *)
(* takes every draw of the trial from it.  hash() of a string depends on   *)
(* the string and on the hash seed the interpreter chose at start-up       *)
(* (labjack.salt, fixed for the session); it is modelled by a mixing       *)
(* polynomial.  RandomState is a deterministic generator: a state and a    *)
(* step function, modelled by a linear congruential step.  labjack.log is  *)
(* the list of the outcomes the trials returned.                           *)
(***************************************************************************)
MaxLabjackTrials == 3
HashSalts == { 3, 11 }
ParticipantIDs == { 1, 2 }
StimSizeDegs == { 42, 83 }
LABJACK_DISTRACTORS == <<"1", "2", "3", "4", "5", "6", "7", "8", "9">>

str_concat_hash(participant, stim_size_deg, require_response, salt) ==
    LET a == (salt * 31 + participant) % 65521
        b == (a * 31 + stim_size_deg) % 65521
    IN  (b * 31 + (IF require_response THEN 1 ELSE 0)) % 65521

(* int(hash(...) % 2**32): a non-negative seed of at most 32 bits; the *)
(* modelled hash is already in that range                              *)
seed_value(participant, stim_size_deg, require_response, salt) ==
    str_concat_hash(participant, stim_size_deg, require_response, salt)

RandomState(seed) == seed % 65536

(* one draw of rng.randint(low, high): high is exclusive *)
randint(state, low, high) ==
    LET next == (state * 75 + 74) % 65537
    IN  [ state |-> next, value |-> low + (next % (high - low)) ]

(* the generator seeded from the trial's number as well *)
TrialRng_per_trial(l, stim_size_deg, require_response) ==
    RandomState(seed_value(l.participant, stim_size_deg, require_response, l.salt)
                + l.n)

(* the generator the trial starts from *)
TrialRng(l, stim_size_deg, require_response) ==
    RandomState(seed_value(l.participant, stim_size_deg, require_response, l.salt))

LabjackInit ==
    /\ labjack \in
          { [ pc |-> "between", salt |-> salt, participant |-> participant,
              n |-> 0, log |-> <<>>, rng |-> 0, stim_size_deg |-> 0,
              require_response |-> FALSE, target_letter |-> "None",
              target_position |-> position_None, end_symbol |-> "None",
              stream |-> <<>>, i |-> 0, rejected |-> FALSE ] :
            salt \in HashSalts, participant \in ParticipantIDs }
    /\ session = Idle
    /\ constructed = Idle
    /\ staircase = NoStaircase
    /\ calls = <<>>
    /\ setup = Idle
    /\ gen = Idle
    /\ trial = Idle
    /\ collector = Idle

(* the trial is entered: the generator is seeded and the target letter, *)
(* the target position and the end symbol are drawn in this order       *)
LabjackBeginTrial ==
    /\ labjack.pc = "between"
    /\ labjack.n < MaxLabjackTrials
    /\ \E stim_size_deg \in StimSizeDegs, require_response \in BOOLEAN :
           LET rng == TrialRng(labjack, stim_size_deg, require_response)
               d1  == randint(rng, 0, Len(TARGET_LETTERS))
               d2  == randint(d1.state, LABJACK_TARGET_POS_MIN,
                              LABJACK_TARGET_POS_MAX + 1)
               d3  == randint(d2.state, 0, Len(FIXATION_SYMBOLS))
           IN  labjack' =
                   [labjack EXCEPT
                      !.pc = "stream", !.rng = d3.state,
                      !.stim_size_deg = stim_size_deg,
                      !.require_response = require_response,
                      !.target_letter = TARGET_LETTERS[d1.value + 1],
                      !.target_position = d2.value,
                      !.end_symbol = FIXATION_SYMBOLS[d3.value + 1],
                      !.stream = <<>>, !.i = 0, !.rejected = FALSE]
    /\ UNCHANGED <<constructed, staircase, calls, setup, gen, trial, collector,
                   session>>

LabjackAppendTarget ==
    /\ labjack.pc = "stream"
    /\ labjack.i < N_STREAM_ITEMS
    /\ labjack.i = labjack.target_position
    /\ labjack' = [labjack EXCEPT !.stream = Append(@, labjack.target_letter),
                                  !.i = @ + 1]
    /\ UNCHANGED <<constructed, staircase, calls, setup, gen, trial, collector,
                   session>>

LabjackDraw(l) == randint(l.rng, 0, Len(LABJACK_DISTRACTORS))

LabjackDistractor(l) == LABJACK_DISTRACTORS[LabjackDraw(l).value + 1]

LabjackAccepts(l) ==
    IF l.stream = <<>> THEN TRUE ELSE LabjackDistractor(l) # Last(l.stream)

(* a draw that differs from the last item: break, append *)
LabjackAppendDistractor ==
    /\ labjack.pc = "stream"
    /\ labjack.i < N_STREAM_ITEMS
    /\ labjack.i # labjack.target_position
    /\ LabjackAccepts(labjack)
    /\ labjack' = [labjack EXCEPT !.rng = LabjackDraw(labjack).state,
                                  !.stream = Append(@, LabjackDistractor(labjack)),
                                  !.i = @ + 1]
    /\ UNCHANGED <<constructed, staircase, calls, setup, gen, trial, collector,
                   session>>

(* a draw equal to the last item: the while loop draws again *)
LabjackRejectDistractor ==
    /\ labjack.pc = "stream"
    /\ labjack.i < N_STREAM_ITEMS
    /\ labjack.i # labjack.target_position
    /\ ~LabjackAccepts(labjack)
    /\ labjack' = [labjack EXCEPT !.rng = LabjackDraw(labjack).state,
                                  !.rejected = TRUE]
    /\ UNCHANGED <<constructed, staircase, calls, setup, gen, trial, collector,
                   session>>

TrialOutcome(l) ==
    [ stim_size_deg |-> l.stim_size_deg, require_response |-> l.require_response,
      target_letter |-> l.target_letter, target_position |-> l.target_position,
      end_symbol |-> l.end_symbol, stream |-> l.stream ]

(* the stream is built; the trial returns what it drew *)
LabjackEndTrial ==
    /\ labjack.pc = "stream"
    /\ labjack.i = N_STREAM_ITEMS
    /\ labjack' = [labjack EXCEPT !.pc = "between", !.n = @ + 1,
                                  !.log = Append(@, TrialOutcome(labjack))]
    /\ UNCHANGED <<constructed, staircase, calls, setup, gen, trial, collector,
                   session>>

LabjackNext ==
    \/ LabjackBeginTrial
    \/ LabjackAppendTarget
    \/ LabjackAppendDistractor
    \/ LabjackRejectDistractor
    \/ LabjackEndTrial

SpecLabjack == LabjackInit /\ [][LabjackNext]_vars

(***************************************************************************)
(* C28: in the LabJack variant any two trials of one session with the same *)
(* stim_size_deg and require_response produce the identical target letter, *)
(* target position, end symbol and stream.                                 *)
(***************************************************************************)
SameConfiguration(a, b) ==
    /\ a.stim_size_deg = b.stim_size_deg
    /\ a.require_response = b.require_response

C28_DrawsDependOnConfigurationOnly ==
    labjack.pc # "idle" =>
        \A a, b \in 1..Len(labjack.log) :
            SameConfiguration(labjack.log[a], labjack.log[b]) =>
                /\ labjack.log[a].target_letter = labjack.log[b].target_letter
                /\ labjack.log[a].target_position = labjack.log[b].target_position
                /\ labjack.log[a].end_symbol = labjack.log[b].end_symbol
                /\ labjack.log[a].stream = labjack.log[b].stream

(* the first and the third trial share a configuration; the second has *)
(* another one and another stream                                      *)
C28_Witness ==
    /\ labjack.pc = "between"
    /\ Len(labjack.log) = 3
    /\ SameConfiguration(labjack.log[1], labjack.log[3])
    /\ ~SameConfiguration(labjack.log[1], labjack.log[2])
    /\ labjack.log[1].stream # labjack.log[2].stream
    /\ Len(labjack.log[1].stream) = N_STREAM_ITEMS

====
